---- MODULE Spec2Model ----
(***************************************************************************)
(* A model of the domain layer of promptwizard:                            *)
(*   - DomainRegistry (base_domain.py), a process-wide pair of dicts;      *)
(*   - DomainEvaluator / MedicalDomainEvaluator, the scoring engine;       *)
(*   - the inline fallback scoring of DomainAwarePromptOptimizer.          *)
(* Python dicts are insertion-ordered: a dict is a sequence of <<key,      *)
(* value>> pairs with distinct keys.  An Optional value is <<>> (None) or  *)
(* <<v>>.  Floats are exact rationals <<numerator, denominator>> in lowest *)
(* terms.  A text is a sequence of symbols (see the evaluator part).       *)
(***************************************************************************)
EXTENDS Integers, Sequences, FiniteSets, TLC

VARIABLES
    _domains,      \* DomainRegistry._domains   : dict domain_type -> DomainConfig
    _evaluators,   \* DomainRegistry._evaluators: dict domain_type -> evaluator class
    directory,     \* the files of the directory load_from_directory scans, in listing order
    lastCall,      \* history: per key, the arguments of the latest register_domain call
    evaluator,     \* the scorer under test: its kind and the DomainConfig it was built with
    response,      \* the response text handed to the scorer
    ground_truth,  \* the expected answer handed to the scorer ("" when there is none)
    question,      \* the question handed to the scorer ("" when there is none)
    subject,       \* the other object under test (a facade, a generator, a validator)
    args,          \* the arguments of the operations on the subject
    ret            \* the operation that ran last, its arguments and what it returned

registry == <<_domains, _evaluators, directory, lastCall>>

inputs == <<evaluator, response, ground_truth, question, subject, args>>

vars == <<_domains, _evaluators, directory, lastCall, evaluator, response, ground_truth,
          question, subject, args, ret>>

----------------------------------------------------------------------------
(* Python values *)

None == <<>>

Some(v) == <<v>>

dict_has(d, k) == \E i \in 1..Len(d) : d[i][1] = k

\* dict.get(k): the value, or None
dict_get(d, k) ==
    IF dict_has(d, k)
    THEN Some(d[CHOOSE i \in 1..Len(d) : d[i][1] = k][2])
    ELSE None

\* d[k] = v: an existing key keeps its place, a new one goes last
dict_set(d, k, v) ==
    IF dict_has(d, k)
    THEN [i \in 1..Len(d) |-> IF d[i][1] = k THEN <<k, v>> ELSE d[i]]
    ELSE Append(d, <<k, v>>)

\* list(d.keys())
dict_keys(d) == [i \in 1..Len(d) |-> d[i][1]]

\* data.get(key, default) on a parsed document (a record)
doc_get(data, key, default) == IF key \in DOMAIN data THEN data[key] ELSE default

Range(s) == {s[i] : i \in 1..Len(s)}

----------------------------------------------------------------------------
(* The knowledge model: dataclasses with their defaults *)

DomainKnowledge(principles, constraints, quality_criteria) ==
    [principles |-> principles, constraints |-> constraints,
     quality_criteria |-> quality_criteria,
     thinking_styles |-> <<>>, expert_personas |-> <<>>]

CaseLibrary(critical_cases, edge_cases, common_cases) ==
    [critical_cases |-> critical_cases, edge_cases |-> edge_cases,
     common_cases |-> common_cases]

DomainConfig(domain_type, domain_name, knowledge, case_library) ==
    [domain_type |-> domain_type, domain_name |-> domain_name,
     knowledge |-> knowledge, case_library |-> case_library,
     critique_template |-> <<>>, refinement_template |-> <<>>]

\* The outcome of a call: an exception, or a value
Raised == [ok |-> FALSE]

Returned(v) == [ok |-> TRUE, value |-> v]

RaisedError(e) == [ok |-> FALSE, error |-> e]

\* An entry of a list in a document: a mapping (a dict of its items) or a
\* scalar
Entry(items) == [is_dict |-> TRUE, items |-> items]

Scalar == [is_dict |-> FALSE]

\* the fields of the entry dataclasses with their defaults (a required
\* field has none: its value here is never read)
QualityCriterionFields ==
    [name |-> <<>>, weight |-> <<>>, description |-> <<>>, evaluation_prompt |-> <<>>]

ExpertPersonaFields ==
    [role |-> <<>>, focus |-> <<>>, background |-> <<>>, thinking_approach |-> <<>>]

CaseExampleFields ==
    [question |-> <<>>, expected_elements |-> <<>>, forbidden_elements |-> <<>>,
     category |-> <<>>, difficulty |-> <<"medium">>, explanation |-> <<>>]

\* cls(**items) of a dataclass: TypeError on an unexpected keyword and on a
\* missing required one
construct(fields, required, items) ==
    IF /\ \A i \in 1..Len(items) : items[i][1] \in DOMAIN fields
       /\ \A f \in required : dict_has(items, f)
    THEN Returned([f \in DOMAIN fields |->
                      IF dict_has(items, f) THEN dict_get(items, f)[1] ELSE fields[f]])
    ELSE RaisedError("TypeError")

\* for e in entries: if isinstance(e, dict): result.append(cls(**e))
RECURSIVE construct_all(_, _, _, _)
construct_all(fields, required, entries, result) ==
    IF entries = <<>> THEN Returned(result)
    ELSE IF ~Head(entries).is_dict
    THEN construct_all(fields, required, Tail(entries), result)
    ELSE LET made == construct(fields, required, Head(entries).items) IN
         IF made.ok
         THEN construct_all(fields, required, Tail(entries), Append(result, made.value))
         ELSE made

\* DomainKnowledge.from_dict
DomainKnowledge_from_dict(data) ==
    LET quality_criteria ==
            construct_all(QualityCriterionFields, {"name", "weight"},
                          doc_get(data, "quality_criteria", <<>>), <<>>)
        expert_personas ==
            construct_all(ExpertPersonaFields, {"role", "focus"},
                          doc_get(data, "expert_personas", <<>>), <<>>)
    IN IF ~quality_criteria.ok THEN quality_criteria
       ELSE IF ~expert_personas.ok THEN expert_personas
       ELSE Returned([DomainKnowledge(doc_get(data, "principles", <<>>),
                                      doc_get(data, "constraints", <<>>),
                                      quality_criteria.value)
                        EXCEPT !.thinking_styles = doc_get(data, "thinking_styles", <<>>),
                               !.expert_personas = expert_personas.value])

\* case["category"] = category of every mapping among the cases
with_category(cases, category) ==
    [i \in 1..Len(cases) |->
        IF cases[i].is_dict
        THEN Entry(dict_set(cases[i].items, "category", category))
        ELSE cases[i]]

\* parse_cases of CaseLibrary.from_dict
RECURSIVE parse_cases(_, _)
parse_cases(cases_data, result) ==
    IF cases_data = <<>> THEN Returned(result)
    ELSE LET category_data == Head(cases_data)
             category == doc_get(category_data, "category", <<>>)
             made == construct_all(CaseExampleFields, {"question"},
                                   with_category(doc_get(category_data, "cases", <<>>),
                                                 category),
                                   result)
         IN IF made.ok THEN parse_cases(Tail(cases_data), made.value) ELSE made

\* CaseLibrary.from_dict
CaseLibrary_from_dict(data) ==
    LET critical_cases == parse_cases(doc_get(data, "critical_cases", <<>>), <<>>)
        edge_cases == parse_cases(doc_get(data, "edge_cases", <<>>), <<>>)
        common_cases == parse_cases(doc_get(data, "common_cases", <<>>), <<>>)
    IN IF ~critical_cases.ok THEN critical_cases
       ELSE IF ~edge_cases.ok THEN edge_cases
       ELSE IF ~common_cases.ok THEN common_cases
       ELSE Returned(CaseLibrary(critical_cases.value, edge_cases.value,
                                 common_cases.value))

\* DomainConfig.from_dict
DomainConfig_from_dict(data) ==
    LET knowledge_data ==
            doc_get(data, "tacit_knowledge", doc_get(data, "knowledge", [x \in {} |-> x]))
        knowledge == DomainKnowledge_from_dict(knowledge_data)
        case_library_data == doc_get(data, "case_library", [x \in {} |-> x])
        case_library == CaseLibrary_from_dict(case_library_data)
    IN IF ~knowledge.ok THEN knowledge
       ELSE IF ~case_library.ok THEN case_library
       ELSE Returned([DomainConfig(doc_get(data, "domain_type", "general"),
                                   doc_get(data, "domain_name",
                                           doc_get(data, "domain_type", "general")),
                                   knowledge.value, case_library.value)
                        EXCEPT !.critique_template = doc_get(data, "critique_template", <<>>),
                               !.refinement_template =
                                   doc_get(data, "refinement_template", <<>>)])

----------------------------------------------------------------------------
(* DomainRegistry *)

\* The identifiers a caller registers or looks up.
DomainTypes == {"medical", "legal", "general"}

EvaluatorClasses == {"MedicalDomainEvaluator", "CustomEvaluator"}

\* A domain_type that is no hashable value (a YAML list): dict insertion raises.
Unhashable == "<list>"

\* The configs callers build themselves: two per identifier, told apart by name.
RegistryConfigs ==
    {DomainConfig(t, n, DomainKnowledge(<<>>, <<>>, <<>>), CaseLibrary(<<>>, <<>>, <<>>)) :
        t \in {"medical", "legal"}, n \in {"A", "B"}}

\* register_domain: what it leaves in _domains ...
register_domain_domains(domains, domain_config) ==
    dict_set(domains, domain_config.domain_type, domain_config)

\* ... and in _evaluators (evaluator_class is an Optional)
register_domain_evaluators(evaluators, domain_config, evaluator_class) ==
    IF evaluator_class # None
    THEN dict_set(evaluators, domain_config.domain_type, evaluator_class[1])
    ELSE evaluators

\* a lookup that falls back to the first registered domain
get_domain_fallback(domains, domain_type) ==
    IF dict_has(domains, domain_type) \/ domains = <<>>
    THEN dict_get(domains, domain_type)
    ELSE Some(domains[1][2])

get_domain(domains, domain_type) == dict_get(domains, domain_type)

get_evaluator(evaluators, domain_type) == dict_get(evaluators, domain_type)

list_domains(domains) == dict_keys(domains)

clear_domains(domains) == <<>>

\* a clear that forgets the second mapping
clear_evaluators_kept(evaluators) == evaluators

clear_evaluators(evaluators) == <<>>

\* the history the claims about "the most recent call" are stated with
NoCalls == [k \in DomainTypes |-> None]

Called(calls, domain_config, evaluator_class) ==
    [calls EXCEPT ![domain_config.domain_type] =
        Some([config |-> domain_config, evaluator_class |-> evaluator_class])]

----------------------------------------------------------------------------
(* load_from_directory: the files of a directory, in the order os.listdir   *)
(* yields them (any order)                                                  *)

EmptyDict == <<>>

\* Parsed YAML mappings: optional keys, a domain_type that may be unhashable.
Documents ==
    {EmptyDict, [domain_type |-> "legal"], [domain_type |-> Unhashable],
     [domain_type |-> "legal", domain_name |-> "C"]}

\* What a file holds: text yaml.safe_load rejects, YAML that is no mapping
\* (a list, an empty file), or a mapping.
FileContents ==
    {[kind |-> "syntax_error"], [kind |-> "not_mapping"]}
        \cup {[kind |-> "mapping", data |-> d] : d \in Documents}

\* .yaml files of every content; .yml and .json files, one malformed and one
\* well-formed each
Files ==
    [ext : {".yaml"}, content : FileContents]
        \cup [ext : {".yml", ".json"},
              content : {[kind |-> "syntax_error"],
                         [kind |-> "mapping", data |-> [domain_type |-> "legal"]]}]

\* the most files a directory holds
MaxFiles == 3

Directories ==
    UNION {{d \in [1..n -> Files] : \A i, j \in 1..n : i # j => d[i] # d[j]} : n \in 0..MaxFiles}

\* DomainConfig.from_yaml: safe_load raises on bad YAML, from_dict raises
\* AttributeError on data without .get
DomainConfig_from_yaml(file) ==
    CASE file.content.kind = "syntax_error" -> Raised
      [] file.content.kind = "not_mapping" -> Raised
      [] OTHER -> DomainConfig_from_dict(file.content.data)

\* the try body of one file succeeds: the parse, then the registration
\* (cls._domains[key] = ... raises TypeError on an unhashable key)
load_file_ok(file) ==
    /\ DomainConfig_from_yaml(file).ok
    /\ DomainConfig_from_yaml(file).value.domain_type # Unhashable

\* filename.endswith('.yaml') or filename.endswith('.yml')
is_yaml(file) == file.ext = ".yaml" \/ file.ext = ".yml"

\* a scan that stops at the first file that fails
RECURSIVE load_scan_abort(_, _)
load_scan_abort(files, acc) ==
    IF files = <<>> THEN acc
    ELSE LET file == Head(files) IN
         IF ~is_yaml(file) THEN load_scan_abort(Tail(files), acc)
         ELSE IF load_file_ok(file)
         THEN LET config == DomainConfig_from_yaml(file).value IN
              load_scan_abort(Tail(files),
                        [acc EXCEPT !.domains = register_domain_domains(@, config),
                                    !.calls = Called(@, config, None)])
         ELSE [acc EXCEPT !.warnings = Append(@, file)]

\* the for loop of load_from_directory over the files left to scan;
\* acc = [domains, calls, warnings]
RECURSIVE load_scan(_, _)
load_scan(files, acc) ==
    IF files = <<>> THEN acc
    ELSE LET file == Head(files) IN
         IF ~is_yaml(file) THEN load_scan(Tail(files), acc)
         ELSE IF load_file_ok(file)
         THEN LET config == DomainConfig_from_yaml(file).value IN
              load_scan(Tail(files),
                        [acc EXCEPT !.domains = register_domain_domains(@, config),
                                    !.calls = Called(@, config, None)])
         ELSE load_scan(Tail(files), [acc EXCEPT !.warnings = Append(@, file)])

---------------------------------------------------------------------------------------------------------------------------------------------------
(* The registry's operations as actions *)

\* no scorer is under test in the registry's specifications
NoSubject ==
    /\ subject = [kind |-> "none"]
    /\ args = <<>>

NoScorer ==
    /\ evaluator = [kind |-> "none"]
    /\ response = <<>>
    /\ ground_truth = <<>>
    /\ question = <<>>
    /\ NoSubject

RegistryInit ==
    /\ _domains = <<>>
    /\ _evaluators = <<>>
    /\ lastCall = NoCalls
    /\ ret = [op |-> "init"]

RegisterDomain(domain_config, evaluator_class) ==
    /\ _domains' = register_domain_domains(_domains, domain_config)
    /\ _evaluators' = register_domain_evaluators(_evaluators, domain_config, evaluator_class)
    /\ lastCall' = Called(lastCall, domain_config, evaluator_class)
    /\ ret' = [op |-> "register_domain", config |-> domain_config,
               evaluator_class |-> evaluator_class]
    /\ UNCHANGED <<directory, inputs>>

GetDomain(domain_type) ==
    /\ ret' = [op |-> "get_domain", arg |-> domain_type,
               value |-> get_domain(_domains, domain_type)]
    /\ UNCHANGED <<_domains, _evaluators, lastCall, directory, inputs>>

GetEvaluator(domain_type) ==
    /\ ret' = [op |-> "get_evaluator", arg |-> domain_type,
               value |-> get_evaluator(_evaluators, domain_type)]
    /\ UNCHANGED <<_domains, _evaluators, lastCall, directory, inputs>>

ListDomains ==
    /\ ret' = [op |-> "list_domains", value |-> list_domains(_domains)]
    /\ UNCHANGED <<_domains, _evaluators, lastCall, directory, inputs>>

\* exists: os.path.exists(directory); a missing directory is left at once
LoadFromDirectory(exists) ==
    LET out == load_scan(directory, [domains |-> _domains, calls |-> lastCall,
                                     warnings |-> <<>>])
    IN /\ _domains' = IF exists THEN out.domains ELSE _domains
       /\ lastCall' = IF exists THEN out.calls ELSE lastCall
       /\ ret' = [op |-> "load_from_directory", exists |-> exists,
                  warnings |-> IF exists THEN out.warnings ELSE <<>>]
       /\ UNCHANGED <<_evaluators, directory, inputs>>

Clear ==
    /\ _domains' = clear_domains(_domains)
    /\ _evaluators' = clear_evaluators(_evaluators)
    /\ lastCall' = NoCalls
    /\ ret' = [op |-> "clear", wiped |-> Len(_domains)]
    /\ UNCHANGED <<directory, inputs>>

OptionalEvaluators == {None} \cup {Some(x) : x \in EvaluatorClasses}

----------------------------------------------------------------------------
(* The factory create_domain_optimizer and the built-in domain packages *)

\* the fields of the DomainConfig dataclass, i.e. the keywords __init__ takes
DomainConfigFields ==
    {"domain_type", "domain_name", "description", "knowledge", "critique_template",
     "refinement_template", "case_library", "metadata"}

\* the keywords the built-in config module of a domain passes to DomainConfig(...)
builtin_keywords(domain) ==
    IF domain \in {"medical", "english_question"}
    THEN DomainConfigFields \cup {"validators"}
    ELSE DomainConfigFields

\* from .<domain> import ...: the package builds its config at import time,
\* and DomainConfig(...) raises TypeError on a keyword that is no field
import_builtin(domain) ==
    IF builtin_keywords(domain) \subseteq DomainConfigFields
    THEN Returned(DomainConfig(domain, "builtin", DomainKnowledge(<<>>, <<>>, <<>>),
                               CaseLibrary(<<>>, <<>>, <<>>)))
    ELSE RaisedError("TypeError")

\* the config resolution of create_domain_optimizer (custom_config is an Optional)
resolve_config(domains, domain_type, custom_config) ==
    IF custom_config # None THEN Returned(custom_config[1])
    ELSE IF get_domain(domains, domain_type) # None
    THEN Returned(get_domain(domains, domain_type)[1])
    ELSE IF domain_type \in {"medical", "legal", "finance"} THEN import_builtin(domain_type)
    ELSE RaisedError("ValueError")

\* DomainAwarePromptOptimizer.__init__: the evaluator given, else the registered one
facade(evaluators, domain_config, given_evaluator) ==
    [domain_config |-> domain_config,
     evaluator |-> IF given_evaluator # None THEN given_evaluator
                   ELSE get_evaluator(evaluators, domain_config.domain_type)]

\* create_domain_optimizer
create_domain_optimizer(domains, evaluators, domain_type, custom_config) ==
    LET config == resolve_config(domains, domain_type, custom_config) IN
    IF ~config.ok THEN config
    ELSE IF domain_type = "medical"
    THEN IF import_builtin("medical").ok
         THEN Returned(facade(evaluators, config.value, Some("MedicalDomainEvaluator")))
         ELSE import_builtin("medical")
    ELSE Returned(facade(evaluators, config.value, None))

\* the identifiers handed to the factory
FactoryTypes == DomainTypes \cup {"finance"}

CustomConfigs ==
    {None, Some(DomainConfig("legal", "custom", DomainKnowledge(<<>>, <<>>, <<>>),
                             CaseLibrary(<<>>, <<>>, <<>>)))}

CreateDomainOptimizer(domain_type, custom_config) ==
    /\ ret' = [op |-> "create_domain_optimizer", domain_type |-> domain_type,
               custom_config |-> custom_config,
               result |-> create_domain_optimizer(_domains, _evaluators, domain_type,
                                                  custom_config)]
    /\ UNCHANGED <<registry, inputs>>

\* the built-in packages in the order domains/__init__.py imports them, each
\* with the evaluator class it is registered with
builtin_domains ==
    << <<"medical", Some("MedicalDomainEvaluator")>>, <<"legal", None>>,
       <<"finance", None>>, <<"english_question", None>> >>

\* the register_domain calls at the end of domains/__init__.py
RECURSIVE register_builtin(_, _)
register_builtin(entries, acc) ==
    IF entries = <<>> THEN acc
    ELSE LET config == import_builtin(Head(entries)[1]).value
             evaluator_class == Head(entries)[2]
         IN register_builtin(Tail(entries),
                [domains |-> register_domain_domains(acc.domains, config),
                 evaluators |-> register_domain_evaluators(acc.evaluators, config,
                                                           evaluator_class),
                 calls |-> Called(acc.calls, config, evaluator_class)])

\* import promptwizard.glue.promptopt.domains: the imports run first and the
\* first one that raises ends the module's execution
import_domains(acc) ==
    IF \E i \in 1..Len(builtin_domains) : ~import_builtin(builtin_domains[i][1]).ok
    THEN [result |-> RaisedError("TypeError"), registry |-> acc]
    ELSE [result |-> Returned(<<>>), registry |-> register_builtin(builtin_domains, acc)]

ImportDomains ==
    LET out == import_domains([domains |-> _domains, evaluators |-> _evaluators,
                               calls |-> lastCall])
    IN /\ _domains' = out.registry.domains
       /\ _evaluators' = out.registry.evaluators
       /\ lastCall' = out.registry.calls
       /\ ret' = [op |-> "import_domains", result |-> out.result]
       /\ UNCHANGED <<directory, inputs>>

\* Registration, lookup and clear
Init ==
    /\ RegistryInit
    /\ directory = <<>>
    /\ NoScorer

Next ==
    \/ \E c \in RegistryConfigs, e \in OptionalEvaluators : RegisterDomain(c, e)
    \/ \E k \in DomainTypes : GetDomain(k)
    \/ \E k \in DomainTypes : GetEvaluator(k)
    \/ ListDomains
    \/ Clear
    \/ \E k \in FactoryTypes, c \in CustomConfigs : CreateDomainOptimizer(k, c)
    \/ ImportDomains

Spec == Init /\ [][Next]_vars

\* Bulk load: a directory of files, entries registered by hand before and after
InitLoad ==
    /\ RegistryInit
    /\ directory \in Directories
    /\ NoScorer

NextLoad ==
    \/ \E c \in {x \in RegistryConfigs : x.domain_name = "A"} :
          RegisterDomain(c, IF c.domain_type = "medical"
                            THEN Some("MedicalDomainEvaluator") ELSE None)
    \/ \E exists \in BOOLEAN : LoadFromDirectory(exists)
    \/ Clear

SpecLoad == InitLoad /\ [][NextLoad]_vars

----------------------------------------------------------------------------
(* Claims about the registry *)

\* C1: after any sequence of register_domain calls, for every key both
\* mappings reflect the most recent call made with that key: get_domain
\* returns its config and get_evaluator its evaluator type, None when that
\* call passed no evaluator.
C1_LastCallWinsBothMappings ==
    \A k \in DomainTypes :
        lastCall[k] # None =>
            /\ get_domain(_domains, k) = Some(lastCall[k][1].config)
            /\ get_evaluator(_evaluators, k) = lastCall[k][1].evaluator_class

\* C2: right after register_domain(config), get_domain(config.domain_type)
\* returns that config and list_domains() contains the key; right after
\* clear(), list_domains() is empty and both lookups return None for every key.
C2_RoundTrip ==
    /\ ret.op = "register_domain" =>
           /\ get_domain(_domains, ret.config.domain_type) = Some(ret.config)
           /\ ret.config.domain_type \in Range(list_domains(_domains))
    /\ ret.op = "clear" =>
           /\ list_domains(_domains) = <<>>
           /\ \A k \in DomainTypes :
                  /\ get_domain(_domains, k) = None
                  /\ get_evaluator(_evaluators, k) = None

\* C2's case: a clear that wiped two registered domains, one with an evaluator
C2_Witness ==
    /\ ret.op = "clear"
    /\ ret.wiped = 2

\* C3: a lookup of a domain_type that is not registered returns None, and
\* get_domain, get_evaluator and list_domains change neither mapping.
C3_LookupAbsentAndPure ==
    [][/\ ret'.op \in {"get_domain", "get_evaluator", "list_domains"} =>
              /\ _domains' = _domains
              /\ _evaluators' = _evaluators
       /\ (ret'.op \in {"get_domain", "get_evaluator"} /\ ~dict_has(_domains, ret'.arg)) =>
              ret'.value = None]_vars

\* C3's case: an evaluator lookup of an unregistered key while another key is
\* registered with an evaluator
C3_Witness ==
    /\ ret.op = "get_evaluator"
    /\ ~dict_has(_domains, ret.arg)
    /\ ret.value = None
    /\ _evaluators # <<>>

\* A well-formed domain document, told from the file alone: a YAML mapping
\* whose domain_type can be a key.
WellFormed(file) ==
    /\ file.content.kind = "mapping"
    /\ doc_get(file.content.data, "domain_type", "general") # Unhashable

\* the config a well-formed document stands for
ConfigOf(file) ==
    LET data == file.content.data
        type == IF "domain_type" \in DOMAIN data THEN data.domain_type ELSE "general"
    IN DomainConfig(type,
                    IF "domain_name" \in DOMAIN data THEN data.domain_name ELSE type,
                    DomainKnowledge(<<>>, <<>>, <<>>), CaseLibrary(<<>>, <<>>, <<>>))

----------------------------------------------------------------------------
(* Floats, as exact rationals <<n, d>> with d > 0, in lowest terms *)

RECURSIVE gcd(_, _)
gcd(a, b) == IF b = 0 THEN a ELSE gcd(b, a % b)

abs(n) == IF n < 0 THEN -n ELSE n

Frac(n, d) == LET g == gcd(abs(n), d) IN <<n \div g, d \div g>>

Zero == Frac(0, 1)

One == Frac(1, 1)

radd(x, y) == Frac(x[1] * y[2] + y[1] * x[2], x[2] * y[2])

rsub(x, y) == Frac(x[1] * y[2] - y[1] * x[2], x[2] * y[2])

rmul(x, y) == Frac(x[1] * y[1], x[2] * y[2])

\* x / y for y > 0
rdiv(x, y) == Frac(x[1] * y[2], x[2] * y[1])

rle(x, y) == x[1] * y[2] <= y[1] * x[2]

rlt(x, y) == x[1] * y[2] < y[1] * x[2]

rmax(x, y) == IF rle(x, y) THEN y ELSE x

rmin(x, y) == IF rle(x, y) THEN x ELSE y

----------------------------------------------------------------------------
(* Strings.  A text is a sequence of symbols; a symbol is a run of          *)
(* characters the model never splits (a letter, a word, a keyword of the    *)
(* code).  No symbol's characters occur in another symbol, so the substring *)
(* test of the code is the test for a contiguous subsequence.               *)

\* str.lower(), symbol by symbol
lower_sym(c) ==
    CASE c = "A" -> "a"
      [] c = "B" -> "b"
      [] c = "XYZ" -> "xyz"
      [] c = "Safety" -> "safety"
      [] c = "C" -> "c"
      [] OTHER -> c

lower(text) == [i \in 1..Len(text) |-> lower_sym(text[i])]

\* The Korean keywords of the code are written in Latin letters (a TLA+
\* string is ASCII), one symbol per keyword or per part of a keyword that
\* the code also looks for on its own:
\*   geumji 금지   haji 하지   anh 않   yongryang 용량   jeonmunga 전문가
\*   sangdam 상담   uisa 의사   hwagin 확인   hwakjeong 확정   jindan 진단
\*   jeonmunui 전문의   jinryo 진료   byeong 병   won 원   imnida 입니다
\*   hwaksilhamnida 확실합니다   teullim 틀림   eops 없   i 이
\*   bunmyeonghi 분명히   bandeusi 반드시   bogyong 복용   mujogeon 무조건
\*   meok 먹   hwaksilhi 확실히   hyogwa 효과   bujagyong 부작용   anjeon 안전
\*   bojang 보장   gwonjang 권장   ilbanjeok 일반적   botong 보통
\*   cheobang 처방   jeong 정   al 알   kaepsyul 캡슐   geomsa 검사
\*   juui 주의   moniteoring 모니터링   gwanchal 관찰   eunggeup 응급
\*   jeuksi 즉시   sil 실   gingeup 긴급   yeongu 연구   imsang 임상
\*   gaideurain 가이드라인   gwongo 권고   geungeo 근거   nonmun 논문
\*   metabunseok 메타분석   chegyejeok 체계적   gochal 고찰   tongjeung 통증
\*   chulhyeol 출혈   hoheup 호흡   uisik 의식   hwanja 환자   gambyeol 감별
\*   ganeungseong 가능성   goryeo 고려   baeje 배제   yangmul 약물
\*   sanghojagyong 상호작용   yong 용   geumgi 금기   daman 다만
\*   geureona 그러나   jehan 제한   yeoe 예외   euro 으로   e 에
\*   ttareumyeon 따르면   cheotjjae 첫째   duljjae 둘째   daeumeuro 다음으로
\*   ttaraseo 따라서   gyeollonjeogeuro 결론적으로   yoyakhamyeon 요약하면
\*   jeongnihamyeon 정리하면   wonin 원인   iyu 이유   ttaemun 때문
\*   jeungsang 증상   jinghu 징후   nata 나타   chiryo 치료   cheochi 처치
\*   gwalli 관리   yebang 예방   bangji 방지   piha 피하   josim 조심
\*   ihaehamnida 이해합니다   geokjeongdoesi 걱정되시   buranhasi 불안하시
\*   himdeusi 힘드시   doum 도움   hamkke 함께   cheoncheonhi 천천히
\*   gwaenchanh 괜찮   bun 분   bonin 본인   gwiha 귀하   gogaengnim 고객님
\*   myeonghwak 명확   wanjeon 완전   gonggam 공감

\* the number of characters of a symbol
sym_len(c) ==
    CASE c \in {"a", "A", "b", "B", "c", "C", "d", " ", "\n", ".", "%", "1", "2", "5", "-", "bullet", "e",
                "sil", "yong", "bun", "anh", "eops", "byeong",
                "won", "i", "meok", "jeong", "al", "geuk", "su"} -> 1
      [] c \in {"xyz", "XYZ", "119", "100", "jeonmunga", "jeonmunui", "bujagyong",
                "imnida", "hwaksilhi", "bunmyeonghi", "bandeusi", "mujogeon",
                "ilbanjeok", "gapjagi"} -> 3
      [] c = "hoheupgonran" -> 4
      [] c = "hwaksilhamnida" -> 5
      [] c = "b x 197" -> 197
      [] c = "b x 98" -> 98
      [] OTHER -> 2

RECURSIVE len(_)
len(text) == IF text = <<>> THEN 0 ELSE sym_len(Head(text)) + len(Tail(text))

\* pat in text
contains(text, pat) ==
    \E i \in 0..(Len(text) - Len(pat)) : \A j \in 1..Len(pat) : text[i + j] = pat[j]

\* any(kw in text for kw in kws)
contains_any(text, kws) == \E kw \in kws : contains(text, kw)

is_space(c) == c \in {" ", "\n"}

\* the symbols that are runs of digits
Digits == {"1", "2", "5", "100", "119"}

\* str.split(): the maximal runs of symbols that are no whitespace
RECURSIVE split_acc(_, _, _)
split_acc(text, word, words) ==
    IF text = <<>> THEN (IF word = <<>> THEN words ELSE Append(words, word))
    ELSE IF is_space(Head(text))
    THEN split_acc(Tail(text), <<>>, IF word = <<>> THEN words ELSE Append(words, word))
    ELSE split_acc(Tail(text), Append(word, Head(text)), words)

split(text) == split_acc(text, <<>>, <<>>)

\* re.search of  a.*b : a, then b later on the same line
search_dotstar(text, a, b) ==
    \E i \in 0..(Len(text) - Len(a)) :
        /\ \A m \in 1..Len(a) : text[i + m] = a[m]
        /\ \E j \in (i + Len(a))..(Len(text) - Len(b)) :
               /\ \A m \in 1..Len(b) : text[j + m] = b[m]
               /\ \A m \in (i + Len(a) + 1)..j : text[m] # "\n"

\* re.search of  a\s*b  for a symbol of firsts, then one of seconds
search_spaced(text, firsts, seconds) ==
    \E i, j \in 1..Len(text) :
        /\ i < j
        /\ text[i] \in firsts
        /\ text[j] \in seconds
        /\ \A m \in (i + 1)..(j - 1) : is_space(text[m])

\* a one-symbol text
W(c) == <<c>>

----------------------------------------------------------------------------
(* Constraint compliance *)

\* DomainEvaluator._extract_forbidden_keywords: the base class extracts none
_extract_forbidden_keywords(constraint) == {}

\* DomainEvaluator._violates_constraint
_violates_constraint(resp, constraint) ==
    LET constraint_lower == lower(constraint)
        response_lower == lower(resp)
    IN /\ \/ contains(constraint_lower, W("geumji"))
          \/ contains(constraint_lower, <<"haji", " ", "anh">>)
       /\ \E keyword \in _extract_forbidden_keywords(constraint) :
              contains(response_lower, lower(keyword))

\* DomainEvaluator.check_constraints
check_constraints(config, resp) ==
    LET constraints == config.knowledge.constraints IN
    IF constraints = <<>> THEN One
    ELSE LET violations ==
                 Cardinality({i \in 1..Len(constraints) :
                                 _violates_constraint(resp, constraints[i])})
             total_constraints == Len(constraints)
         IN rsub(One, Frac(violations, total_constraints))

\* MedicalDomainEvaluator.DANGEROUS_PATTERNS, each  a.*b  as <<a, b>>
DANGEROUS_PATTERNS ==
    << <<W("bandeusi"), W("bogyong")>>,
       <<W("mujogeon"), W("meok")>>,
       <<W("hwaksilhi"), W("byeong")>>,
       <<<<"teullim", "eops", "i">>, W("jindan")>>,
       <<<<"100", "%">>, W("hyogwa")>>,
       <<W("bujagyong"), W("eops")>>,
       <<W("anjeon"), W("bojang")>> >>

\* pattern.search(response) summed over the compiled patterns
dangerous_hits(resp) ==
    Cardinality({i \in 1..Len(DANGEROUS_PATTERNS) :
                    search_dotstar(resp, DANGEROUS_PATTERNS[i][1], DANGEROUS_PATTERNS[i][2])})

\* MedicalDomainEvaluator._violates_medical_constraint
_violates_medical_constraint(resp, constraint) ==
    LET response_lower == lower(resp)
        constraint_lower == lower(constraint)
        definitive ==
            \/ search_spaced(response_lower, {"imnida"}, {"."})
            \/ contains(response_lower, W("hwaksilhamnida"))
            \/ contains(response_lower, <<"teullim", "eops", "i">>)
            \/ search_dotstar(response_lower, W("bunmyeonghi"), W("byeong"))
        dosage ==
            search_spaced(response_lower, Digits, {"mg", "ml", "jeong", "al", "kaepsyul"})
        has_qualifier ==
            contains_any(response_lower, {W("gwonjang"), W("ilbanjeok"), W("botong"),
                                          W("uisa"), W("cheobang")})
        consultation ==
            contains_any(response_lower, {W("uisa"), W("jeonmunui"), W("sangdam"),
                                          W("jinryo"), <<"byeong", "won">>})
    IN \/ /\ \/ contains(constraint_lower, <<"hwakjeong", " ", "jindan">>)
             \/ contains(constraint_lower, <<"jindan", " ", "geumji">>)
          /\ definitive
       \/ /\ contains(constraint_lower, W("yongryang"))
          /\ dosage
          /\ ~has_qualifier
       \/ /\ \/ contains(constraint_lower, <<"jeonmunga", " ", "sangdam">>)
             \/ contains(constraint_lower, <<"uisa", " ", "hwagin">>)
          /\ ~consultation


\* a check that counts the domain constraints only
medical_check_constraints_listed(config, resp) ==
    LET constraints == config.knowledge.constraints
        violations ==
            Cardinality({i \in 1..Len(constraints) :
                            _violates_medical_constraint(resp, constraints[i])})
    IN IF constraints = <<>> THEN One
       ELSE rmax(Zero, rsub(One, Frac(violations, Len(constraints))))

\* MedicalDomainEvaluator.check_constraints
medical_check_constraints(config, resp) ==
    LET constraints == config.knowledge.constraints
        total_checks == Len(DANGEROUS_PATTERNS) + Len(constraints)
        violations ==
            dangerous_hits(resp)
                + Cardinality({i \in 1..Len(constraints) :
                                  _violates_medical_constraint(resp, constraints[i])})
    IN IF total_checks = 0 THEN One
       ELSE rmax(Zero, rsub(One, Frac(violations, total_checks)))

\* DomainAwarePromptOptimizer._extract_terms
_extract_terms(text) == {w \in Range(split(text)) : len(w) > 2}

\* the test of one constraint in _check_basic_constraints
basic_violation(resp, constraint) ==
    /\ contains(constraint, W("geumji"))
    /\ \E term \in _extract_terms(constraint) : contains(lower(resp), lower(term))


\* a check that returns the violated fraction
_check_basic_constraints_violated(config, resp) ==
    LET constraints == config.knowledge.constraints IN
    IF constraints = <<>> THEN One
    ELSE Frac(Cardinality({i \in 1..Len(constraints) : basic_violation(resp, constraints[i])}),
              Len(constraints))

\* DomainAwarePromptOptimizer._check_basic_constraints
_check_basic_constraints(config, resp) ==
    LET constraints == config.knowledge.constraints IN
    IF constraints = <<>> THEN One
    ELSE LET violations ==
                 Cardinality({i \in 1..Len(constraints) : basic_violation(resp, constraints[i])})
         IN rmax(Zero, rsub(One, Frac(violations, Len(constraints))))

\* constraint_compliance as the scorer of each kind computes it
constraint_compliance(ev, resp) ==
    CASE ev.kind = "base" -> check_constraints(ev.domain_config, resp)
      [] ev.kind = "medical" -> medical_check_constraints(ev.domain_config, resp)
      [] ev.kind = "facade" -> _check_basic_constraints(ev.domain_config, resp)

----------------------------------------------------------------------------
(* Accuracy *)

\* re.findall(r'\d+(?:\.\d+)?', text): the numbers of a text, left to right
RECURSIVE findall_numbers(_)
findall_numbers(text) ==
    IF text = <<>> THEN {}
    ELSE IF Head(text) \notin Digits THEN findall_numbers(Tail(text))
    ELSE IF Len(text) >= 3 /\ text[2] = "." /\ text[3] \in Digits
    THEN {SubSeq(text, 1, 3)} \cup findall_numbers(SubSeq(text, 4, Len(text)))
    ELSE {SubSeq(text, 1, 1)} \cup findall_numbers(Tail(text))

\* MedicalDomainEvaluator._contains_key_elements
_contains_key_elements(resp, truth) ==
    findall_numbers(truth) \cap findall_numbers(resp) # {}

\* MedicalDomainEvaluator.check_accuracy
medical_check_accuracy(resp, truth) ==
    IF truth = <<>> THEN Frac(1, 2)
    ELSE LET truth_words == Range(split(lower(truth)))
             response_words == Range(split(lower(resp)))
             overlap == Cardinality(truth_words \cap response_words)
             total == Cardinality(truth_words)
         IN IF total = 0 THEN Frac(1, 2)
            ELSE IF _contains_key_elements(resp, truth)
            THEN rmin(One, radd(Frac(overlap, total), Frac(1, 5)))
            ELSE Frac(overlap, total)

\* the accuracy block of DomainAwarePromptOptimizer._default_evaluate
default_accuracy(resp, truth) ==
    LET overlap == Cardinality(Range(split(lower(resp))) \cap Range(split(lower(truth))))
        total == Cardinality(Range(split(lower(truth))))
    IN IF total > 0 THEN Frac(overlap, total) ELSE Frac(1, 2)

\* check_accuracy is abstract in DomainEvaluator: a concrete subclass returns
\* its own score, here the one the scorer was built with
check_accuracy(ev, resp, truth) ==
    IF ev.kind = "medical" THEN medical_check_accuracy(resp, truth) ELSE ev.accuracy

----------------------------------------------------------------------------
(* Principle alignment *)

SAFETY_KEYWORDS ==
    {W("jeonmunui"), W("uisa"), W("sangdam"), W("jinryo"), W("geomsa"), W("juui"),
     W("hwagin"), W("moniteoring"), W("gwanchal")}

EMERGENCY_KEYWORDS ==
    {W("eunggeup"), W("jeuksi"), W("119"), <<"eunggeup", "sil">>, W("gingeup")}

EVIDENCE_KEYWORDS ==
    {W("yeongu"), W("imsang"), W("gaideurain"), W("gwongo"), W("geungeo"), W("nonmun"),
     W("metabunseok"), <<"chegyejeok", " ", "gochal">>}

\* DomainEvaluator._aligns_with_principle
_aligns_with_principle(resp, principle) == TRUE

\* DomainEvaluator.check_principles
check_principles(config, resp) ==
    LET principles == config.knowledge.principles IN
    IF principles = <<>> THEN One
    ELSE LET aligned_count ==
                 Cardinality({i \in 1..Len(principles) :
                                 _aligns_with_principle(resp, principles[i])})
         IN Frac(aligned_count, Len(principles))

\* MedicalDomainEvaluator._check_default_medical_principles
_check_default_medical_principles(resp) ==
    LET response_lower == lower(resp)
        safety == IF contains_any(response_lower, SAFETY_KEYWORDS)
                  THEN Frac(1, 5) ELSE Zero
        evidence == IF contains_any(response_lower, EVIDENCE_KEYWORDS)
                    THEN Frac(3, 20) ELSE Zero
        emergency_context ==
            contains_any(response_lower,
                         {W("tongjeung"), W("chulhyeol"), W("hoheup"), W("uisik")})
        emergency == IF emergency_context /\ contains_any(response_lower, EMERGENCY_KEYWORDS)
                     THEN Frac(3, 20) ELSE Zero
    IN rmin(One, radd(radd(radd(Frac(1, 2), safety), evidence), emergency))

\* MedicalDomainEvaluator._aligns_with_medical_principle
_aligns_with_medical_principle(resp, principle) ==
    LET response_lower == lower(resp)
        principle_lower == lower(principle)
    IN IF contains_any(principle_lower, {W("anjeon"), W("hwanja")})
       THEN contains_any(response_lower, SAFETY_KEYWORDS)
       ELSE IF contains_any(principle_lower, {W("geungeo"), W("evidence")})
       THEN contains_any(response_lower, EVIDENCE_KEYWORDS)
       ELSE IF contains_any(principle_lower, {W("gambyeol"), W("jindan")})
       THEN contains_any(response_lower,
                         {W("ganeungseong"), W("goryeo"), W("baeje"), W("hwagin")})
       ELSE IF contains_any(principle_lower, {W("yangmul"), W("sanghojagyong")})
       THEN contains_any(response_lower,
                         {W("bogyong"), <<"byeong", "yong">>, W("juui"), W("geumgi")})
       ELSE TRUE

\* a check that scores an empty principle list like the base class
medical_check_principles_neutral(config, resp) ==
    LET principles == config.knowledge.principles IN
    IF principles = <<>> THEN One
    ELSE Frac(Cardinality({i \in 1..Len(principles) :
                              _aligns_with_medical_principle(resp, principles[i])}),
              Len(principles))

\* MedicalDomainEvaluator.check_principles
medical_check_principles(config, resp) ==
    LET principles == config.knowledge.principles IN
    IF principles = <<>> THEN _check_default_medical_principles(resp)
    ELSE LET aligned ==
                 Cardinality({i \in 1..Len(principles) :
                                 _aligns_with_medical_principle(resp, principles[i])})
             total == Len(principles)
         IN IF total > 0 THEN Frac(aligned, total) ELSE Frac(1, 2)

\* principle_alignment as the evaluator of each kind computes it
principle_alignment(ev, resp) ==
    IF ev.kind = "medical" THEN medical_check_principles(ev.domain_config, resp)
    ELSE check_principles(ev.domain_config, resp)

----------------------------------------------------------------------------
(* Quality criteria.  A criterion is [name, weight]; its name is one symbol, *)
(* so "keyword in name.lower()" is lower_sym(name) = keyword.                *)

QualityCriterion(name, weight) == [name |-> name, weight |-> weight]

\* DomainEvaluator.evaluate_criterion
evaluate_criterion(resp, criterion) == Frac(1, 2)

\* sum(1 for kw in kws if kw in text)
mentions(text, kws) == Cardinality({kw \in kws : contains(text, kw)})


\* a safety score left unclamped
_evaluate_safety_unclamped(resp) ==
    radd(rsub(radd(Frac(1, 2), rmin(Frac(3, 10), Frac(mentions(resp, SAFETY_KEYWORDS), 10))),
              Frac(dangerous_hits(resp), 5)),
         IF contains_any(resp, {W("daman"), W("geureona"), W("juui"), W("jehan"), W("yeoe")})
         THEN Frac(1, 10) ELSE Zero)

\* MedicalDomainEvaluator._evaluate_safety
_evaluate_safety(resp) ==
    LET safety_mentions == mentions(resp, SAFETY_KEYWORDS)
        danger_count == dangerous_hits(resp)
        caveat == contains_any(resp, {W("daman"), W("geureona"), W("juui"), W("jehan"),
                                      W("yeoe")})
        score == radd(rsub(radd(Frac(1, 2), rmin(Frac(3, 10), Frac(safety_mentions, 10))),
                           Frac(danger_count, 5)),
                      IF caveat THEN Frac(1, 10) ELSE Zero)
    IN rmax(Zero, rmin(One, score))

\* MedicalDomainEvaluator._evaluate_evidence_basis
_evaluate_evidence_basis(resp) ==
    LET evidence_count == mentions(resp, EVIDENCE_KEYWORDS)
        hedge_count == mentions(resp, {W("ganeungseong"), <<"ilbanjeok", "euro">>,
                                       <<"yeongu", "e", " ", "ttareumyeon">>, W("gwongo")})
    IN rmin(One, radd(radd(Frac(3, 10), rmin(Frac(4, 10), Frac(evidence_count, 10))),
                      rmin(Frac(3, 10), Frac(hedge_count, 10))))

\* str.split('.'): the parts between the full stops, empty ones kept
RECURSIVE split_dot(_, _, _)
split_dot(text, part, parts) ==
    IF text = <<>> THEN Append(parts, part)
    ELSE IF Head(text) = "."
    THEN split_dot(Tail(text), <<>>, Append(parts, part))
    ELSE split_dot(Tail(text), Append(part, Head(text)), parts)

RECURSIVE sum_words(_)
sum_words(sentences) ==
    IF sentences = <<>> THEN 0
    ELSE Len(split(Head(sentences))) + sum_words(Tail(sentences))

\* MedicalDomainEvaluator._evaluate_clarity
_evaluate_clarity(resp) ==
    LET sentences == split_dot(resp, <<>>, <<>>)
        avg_length == Frac(sum_words(sentences), Len(sentences))
        length_score ==
            IF rle(Frac(10, 1), avg_length) /\ rle(avg_length, Frac(25, 1)) THEN Frac(1, 5)
            ELSE IF rlt(Frac(40, 1), avg_length) THEN Frac(-1, 5)
            ELSE Zero
        structure ==
            contains_any(resp, {W("cheotjjae"), W("duljjae"), <<"1", ".">>, <<"2", ".">>,
                                W("bullet"), W("-"), W("daeumeuro")})
        conclusion ==
            contains_any(resp, {W("ttaraseo"), W("gyeollonjeogeuro"), W("yoyakhamyeon"),
                                W("jeongnihamyeon")})
        score == radd(radd(radd(Frac(1, 2), length_score),
                           IF structure THEN Frac(1, 5) ELSE Zero),
                      IF conclusion THEN Frac(1, 10) ELSE Zero)
    IN rmin(One, rmax(Zero, score))

\* MedicalDomainEvaluator._evaluate_completeness
_evaluate_completeness(resp) ==
    LET coverage_aspects ==
            {{W("wonin"), W("iyu"), W("ttaemun")},
             {W("jeungsang"), W("jinghu"), W("nata")},
             {W("chiryo"), W("cheochi"), W("gwalli")},
             {W("yebang"), W("bangji"), W("piha")},
             {W("juui"), W("josim"), W("geumgi")}}
        covered == Cardinality({kws \in coverage_aspects : contains_any(resp, kws)})
    IN rmin(One, radd(Frac(3, 10), Frac(14 * covered, 100)))

\* MedicalDomainEvaluator._evaluate_empathy
_evaluate_empathy(resp) ==
    LET empathy_count ==
            mentions(resp, {W("ihaehamnida"), W("geokjeongdoesi"), W("buranhasi"),
                            W("himdeusi"), W("doum"), W("hamkke"), W("cheoncheonhi"),
                            W("gwaenchanh")})
        patient_centered ==
            contains_any(resp, {<<"hwanja", "bun">>, W("bonin"), W("gwiha"),
                                W("gogaengnim")})
    IN rmin(One, radd(radd(Frac(2, 5), rmin(Frac(2, 5), Frac(empathy_count, 10))),
                      IF patient_centered THEN Frac(1, 5) ELSE Zero))

\* MedicalDomainEvaluator.evaluate_criterion
medical_evaluate_criterion(resp, criterion) ==
    LET response_lower == lower(resp)
        criterion_name == lower_sym(criterion.name)
    IN IF criterion_name \in {"anjeon", "safety"} THEN _evaluate_safety(response_lower)
       ELSE IF criterion_name \in {"geungeo", "evidence"}
       THEN _evaluate_evidence_basis(response_lower)
       ELSE IF criterion_name \in {"myeonghwak", "clarity"} THEN _evaluate_clarity(resp)
       ELSE IF criterion_name \in {"wanjeon", "completeness"}
       THEN _evaluate_completeness(response_lower)
       ELSE IF criterion_name \in {"gonggam", "empathy"} THEN _evaluate_empathy(response_lower)
       ELSE Frac(1, 2)

\* evaluate_criterion as the evaluator of each kind computes it
criterion_score(ev, resp, criterion) ==
    IF ev.kind = "medical" THEN medical_evaluate_criterion(resp, criterion)
    ELSE evaluate_criterion(resp, criterion)

----------------------------------------------------------------------------
(* Case coverage *)

CaseExample(q, expected_elements, forbidden_elements) ==
    [question |-> q, expected_elements |-> expected_elements,
     forbidden_elements |-> forbidden_elements, category |-> ""]

\* CaseLibrary.get_all_cases
get_all_cases(case_library) ==
    case_library.critical_cases \o case_library.edge_cases \o case_library.common_cases

\* a match test that accepts an overlap of exactly one half
_questions_match_at_half(q1, q2) ==
    LET words1 == Range(split(q1))
        words2 == Range(split(q2))
        overlap == Cardinality(words1 \cap words2)
        min_len == IF Cardinality(words1) <= Cardinality(words2)
                   THEN Cardinality(words1) ELSE Cardinality(words2)
    IN IF min_len = 0 THEN FALSE ELSE ~rlt(Frac(overlap, min_len), Frac(1, 2))

\* DomainEvaluator._questions_match
_questions_match(q1, q2) ==
    LET words1 == Range(split(q1))
        words2 == Range(split(q2))
        overlap == Cardinality(words1 \cap words2)
        min_len == IF Cardinality(words1) <= Cardinality(words2)
                   THEN Cardinality(words1) ELSE Cardinality(words2)
    IN IF min_len = 0 THEN FALSE ELSE rlt(Frac(1, 2), Frac(overlap, min_len))

\* DomainEvaluator._find_matching_cases
_find_matching_cases(config, q) ==
    SelectSeq(get_all_cases(config.case_library),
              LAMBDA case : _questions_match(lower(q), lower(case.question)))


\* a case score that takes a quarter off per forbidden element found
_evaluate_single_case_quarter(resp, case) ==
    LET response_lower == lower(resp)
        expected == case.expected_elements
        forbidden == case.forbidden_elements
        expected_found ==
            Cardinality({i \in 1..Len(expected) : contains(response_lower, lower(expected[i]))})
        expected_score ==
            IF expected # <<>> THEN Frac(expected_found, Len(expected)) ELSE One
        forbidden_found ==
            Cardinality({i \in 1..Len(forbidden) : contains(response_lower, lower(forbidden[i]))})
    IN IF resp = <<>> THEN Zero
       ELSE rmax(Zero, rsub(expected_score, Frac(forbidden_found, 4)))

\* DomainEvaluator._evaluate_single_case
_evaluate_single_case(resp, case) ==
    LET response_lower == lower(resp)
        expected == case.expected_elements
        forbidden == case.forbidden_elements
        expected_found ==
            Cardinality({i \in 1..Len(expected) : contains(response_lower, lower(expected[i]))})
        expected_score ==
            IF expected # <<>> THEN Frac(expected_found, Len(expected)) ELSE One
        forbidden_found ==
            Cardinality({i \in 1..Len(forbidden) : contains(response_lower, lower(forbidden[i]))})
        forbidden_penalty ==
            IF forbidden # <<>> THEN Frac(forbidden_found, Len(forbidden)) ELSE Zero
    IN rmax(Zero, rsub(expected_score, forbidden_penalty))

RECURSIVE sum_case_scores(_, _)
sum_case_scores(resp, cases) ==
    IF cases = <<>> THEN Zero
    ELSE radd(_evaluate_single_case(resp, Head(cases)), sum_case_scores(resp, Tail(cases)))


\* a case score that is 0 rather than absent when nothing matches
evaluate_against_cases_zero(config, resp, q) ==
    LET matching_cases == _find_matching_cases(config, q) IN
    IF q = <<>> \/ matching_cases = <<>> THEN Some(Zero)
    ELSE Some(rdiv(sum_case_scores(resp, matching_cases), Frac(Len(matching_cases), 1)))

\* DomainEvaluator.evaluate_against_cases: an Optional score
evaluate_against_cases(config, resp, q) ==
    IF q = <<>> THEN None
    ELSE LET matching_cases == _find_matching_cases(config, q) IN
         IF matching_cases = <<>> THEN None
         ELSE Some(rdiv(sum_case_scores(resp, matching_cases),
                        Frac(Len(matching_cases), 1)))

----------------------------------------------------------------------------
(* The score map and its weighted mean *)

\* the default_weights literal of calculate_weighted_score
default_weights ==
    << <<"accuracy", Frac(3, 10)>>, <<"constraint_compliance", Frac(1, 4)>>,
       <<"principle_alignment", Frac(1, 5)>>, <<"case_coverage", Frac(1, 4)>> >>

\* the weight_map comprehension of calculate_weighted_score
RECURSIVE weight_map(_)
weight_map(quality_criteria) ==
    IF quality_criteria = <<>> THEN <<>>
    ELSE LET n == Len(quality_criteria) IN
         dict_set(weight_map(SubSeq(quality_criteria, 1, n - 1)),
                  quality_criteria[n].name, quality_criteria[n].weight)


\* a weight lookup that lets the standard default win over a declared weight
metric_weight_standard_first(config, metric) ==
    LET declared == dict_get(weight_map(config.knowledge.quality_criteria), metric)
        standard == dict_get(default_weights, metric)
    IN IF standard # None THEN standard[1]
       ELSE IF declared # None THEN declared[1]
       ELSE Frac(1, 10)

\* weight_map.get(metric, default_weights.get(metric, 0.1))
metric_weight(config, metric) ==
    LET declared == dict_get(weight_map(config.knowledge.quality_criteria), metric)
        standard == dict_get(default_weights, metric)
    IN IF declared # None THEN declared[1]
       ELSE IF standard # None THEN standard[1]
       ELSE Frac(1, 10)

\* the loop of calculate_weighted_score: <<weighted_sum, total_weight>>
RECURSIVE weighted_sums(_, _)
weighted_sums(config, scores) ==
    IF scores = <<>> THEN <<Zero, Zero>>
    ELSE LET n == Len(scores)
             rest == weighted_sums(config, SubSeq(scores, 1, n - 1))
             metric == scores[n][1]
             weight == metric_weight(config, metric)
         IN IF metric = "overall" THEN rest
            ELSE <<radd(rest[1], rmul(scores[n][2], weight)), radd(rest[2], weight)>>

\* DomainEvaluator.calculate_weighted_score
calculate_weighted_score(config, scores) ==
    IF scores = <<>> THEN Zero
    ELSE LET sums == weighted_sums(config, scores) IN
         IF rlt(Zero, sums[2]) THEN rdiv(sums[1], sums[2]) ELSE Zero

\* the loop over quality_criteria in evaluate
RECURSIVE criteria_scores(_, _, _, _)
criteria_scores(ev, resp, quality_criteria, scores) ==
    IF quality_criteria = <<>> THEN scores
    ELSE criteria_scores(ev, resp, Tail(quality_criteria),
                         dict_set(scores, Head(quality_criteria).name,
                                  criterion_score(ev, resp, Head(quality_criteria))))

\* DomainEvaluator.evaluate
evaluate(ev, resp, truth, q) ==
    LET config == ev.domain_config
        s1 == IF truth # <<>>
              THEN dict_set(<<>>, "accuracy", check_accuracy(ev, resp, truth))
              ELSE <<>>
        s2 == dict_set(s1, "constraint_compliance", constraint_compliance(ev, resp))
        s3 == dict_set(s2, "principle_alignment", principle_alignment(ev, resp))
        s4 == criteria_scores(ev, resp, config.knowledge.quality_criteria, s3)
        case_score == evaluate_against_cases(config, resp, q)
        s5 == IF case_score # None THEN dict_set(s4, "case_coverage", case_score[1]) ELSE s4
    IN dict_set(s5, "overall", calculate_weighted_score(config, s5))

RECURSIVE sum_values(_)
sum_values(scores) ==
    IF scores = <<>> THEN Zero ELSE radd(Head(scores)[2], sum_values(Tail(scores)))

\* DomainAwarePromptOptimizer._default_evaluate
_default_evaluate(ev, resp, truth) ==
    LET s1 == IF truth # <<>>
              THEN dict_set(<<>>, "accuracy", default_accuracy(resp, truth))
              ELSE <<>>
        s2 == dict_set(s1, "constraint_compliance",
                       _check_basic_constraints(ev.domain_config, resp))
    IN IF s2 # <<>>
       THEN dict_set(s2, "overall", rdiv(sum_values(s2), Frac(Len(s2), 1)))
       ELSE dict_set(s2, "overall", Frac(1, 2))

\* DomainAwarePromptOptimizer.evaluate_response
evaluate_response(ev, resp, truth, q) ==
    IF ev.kind = "facade" THEN _default_evaluate(ev, resp, truth)
    ELSE evaluate(ev, resp, truth, q)
----------------------------------------------------------------------------
(* Scoring: the inputs are drawn once, the operations score them *)

MaxConstraints == 2
MaxCriteria == 2
MaxCases == 2

\* Seq(S) up to a length
RECURSIVE SeqUpTo(_, _)
SeqUpTo(S, n) ==
    IF n = 0 THEN {<<>>}
    ELSE LET shorter == SeqUpTo(S, n - 1) IN
         shorter \cup {Append(q, x) : q \in {r \in shorter : Len(r) = n - 1}, x \in S}

NoKnowledge == DomainKnowledge(<<>>, <<>>, <<>>)

NoCases == CaseLibrary(<<>>, <<>>, <<>>)

\* constraint texts: a ban naming a term, a dosage rule, a consultation rule,
\* a diagnosis ban and a rule no checker recognises
ConstraintTexts ==
    {<<"xyz", " ", "geumji">>, W("yongryang"), <<"jeonmunga", " ", "sangdam">>,
     <<"jindan", " ", "geumji">>, W("a")}

ConstraintResponses ==
    {<<>>, W("a"), <<"XYZ", " ", "uisa">>, <<"5", " ", "mg">>, <<"5", "mg", " ", "uisa">>,
     <<"jindan">>, <<"hwaksilhamnida">>, <<"bujagyong", " ", "eops">>,
     <<"bujagyong", "\n", "eops">>, <<"100", "%", " ", "hyogwa", " ", "xyz">>,
     <<"anjeon", "bojang", " ", "bujagyong", "eops">>,
     <<"imnida", " ", ".", " ", "sangdam">>}

Weights == {Zero, Frac(1, 4), One}

CriterionNames == {"accuracy", "constraint_compliance", "principle_alignment", "case_coverage"}

Criteria == {QualityCriterion(n, w) : n \in CriterionNames, w \in Weights}

CaseSamples ==
    {CaseExample(q, e, f) :
        q \in {W("a"), W("b")},
        e \in {<<>>, <<W("a")>>, <<W("a"), W("B")>>},
        f \in {<<>>, <<W("xyz")>>}}

CaseQuestions == {<<>>, W("A"), <<"a", " ", "b">>}

CaseResponses == {<<>>, <<"A", " ", "b">>, <<"a", "XYZ">>}

MedicalCriterionNames ==
    {"Safety", "evidence", "clarity", "completeness", "empathy", "anjeon", "tone"}

MedicalPrinciples ==
    {<<>>, <<<<"hwanja", " ", "anjeon">>>>, <<W("geungeo")>>, <<W("jindan")>>,
     <<W("yakmul"), W("a")>>}

MedicalResponses ==
    {<<>>, <<"uisa", " ", "sangdam", " ", "juui", " ", "hwagin">>,
     <<"bandeusi", " ", "bogyong", ".", "mujogeon", "meok", ".", "bujagyong", "eops", ".",
       "anjeon", "bojang">>,
     <<"yeongu", "e", " ", "ttareumyeon", " ", "gwongo", " ", "ganeungseong">>,
     <<"1", ".", "wonin", " ", "jeungsang", ".", "ttaraseo", " ", "chiryo", " ", "yebang",
       " ", "juui">>,
     <<"hwanja", "bun", " ", "ihaehamnida", " ", "doum", " ", "hamkke", " ", "gwaenchanh",
       " ", "cheoncheonhi">>,
     <<"tongjeung", " ", "jeuksi", " ", "119">>,
     <<"5", " ", "mg">>}

MedicalTruths == {<<>>, <<"5", " ", "mg">>, <<"uisa", " ", "sangdam">>}

\* what a concrete subclass's check_accuracy returns
AccuracyHook == {Zero, Frac(1, 2), One}

Evaluator(kind, domain_config, accuracy) ==
    [kind |-> kind, domain_config |-> domain_config, accuracy |-> accuracy]

ConfigOfKnowledge(knowledge, case_library) ==
    DomainConfig("medical", "A", knowledge, case_library)

\* configurations that differ in their constraints
ConstraintInputs ==
    /\ \E kind \in {"base", "medical", "facade"},
          constraints \in SeqUpTo(ConstraintTexts, MaxConstraints) :
          evaluator = Evaluator(kind,
                                ConfigOfKnowledge(DomainKnowledge(<<>>, constraints, <<>>),
                                                  NoCases),
                                Frac(1, 2))
    /\ response \in ConstraintResponses
    /\ ground_truth = <<>>
    /\ question = <<>>

\* configurations that differ in their criteria and weights
CriteriaInputs ==
    /\ \E kind \in {"base", "medical"}, criteria \in SeqUpTo(Criteria, MaxCriteria) :
          evaluator = Evaluator(kind,
                                ConfigOfKnowledge(DomainKnowledge(<<>>, <<>>, criteria),
                                                  CaseLibrary(<<>>, <<>>,
                                                      <<CaseExample(W("a"), <<W("a")>>, <<>>)>>)),
                                One)
    /\ response = <<"a", " ", "uisa">>
    /\ \E asked \in {<<<<>>, <<>>>>, <<<<>>, W("a")>>, <<W("a"), W("a")>>} :
          /\ ground_truth = asked[1]
          /\ question = asked[2]

\* configurations that differ in their case library
CaseInputs ==
    /\ \E critical \in SeqUpTo(CaseSamples, MaxCases) :
          evaluator = Evaluator("base",
                                ConfigOfKnowledge(NoKnowledge,
                                                  CaseLibrary(critical, <<>>,
                                                      <<CaseExample(W("c"), <<W("b")>>,
                                                                    <<W("a")>>)>>)),
                                Zero)
    /\ response \in CaseResponses
    /\ ground_truth = <<>>
    /\ question \in CaseQuestions

\* the medical heuristics: one criterion, principles, a ground truth
MedicalInputs ==
    /\ \E name \in MedicalCriterionNames, principles \in MedicalPrinciples :
          evaluator = Evaluator("medical",
                                ConfigOfKnowledge(
                                    DomainKnowledge(principles, <<>>,
                                                    <<QualityCriterion(name, Frac(1, 4))>>),
                                    NoCases),
                                Zero)
    /\ response \in MedicalResponses
    /\ ground_truth \in MedicalTruths
    /\ question = <<>>

\* the facade's fallback and a subclass's accuracy on a ground truth
AccuracyInputs ==
    /\ \E kind \in {"base", "facade"}, accuracy \in AccuracyHook,
          constraints \in SeqUpTo({<<"xyz", " ", "geumji">>}, MaxConstraints) :
          evaluator = Evaluator(kind,
                                ConfigOfKnowledge(DomainKnowledge(<<>>, constraints, <<>>),
                                                  NoCases),
                                accuracy)
    /\ response \in {<<>>, <<"a", " ", "XYZ">>, <<"b">>}
    /\ ground_truth \in {<<>>, <<"A", " ", "b">>, <<" ">>}
    /\ question = <<>>

\* score maps handed to calculate_weighted_score directly
ScoreMaps ==
    {<<>>, << <<"overall", One>> >>,
     << <<"accuracy", One>>, <<"fluency", Frac(1, 2)>>, <<"overall", Zero>> >>}

CheckConstraints ==
    /\ ret' = [op |-> "check_constraints", value |-> constraint_compliance(evaluator, response)]
    /\ UNCHANGED <<registry, inputs>>

EvaluateAgainstCases ==
    /\ evaluator.kind # "facade"
    /\ ret' = [op |-> "evaluate_against_cases",
               value |-> evaluate_against_cases(evaluator.domain_config, response, question)]
    /\ UNCHANGED <<registry, inputs>>

CalculateWeightedScore(scores) ==
    /\ evaluator.kind # "facade"
    /\ ret' = [op |-> "calculate_weighted_score", scores |-> scores,
               value |-> calculate_weighted_score(evaluator.domain_config, scores)]
    /\ UNCHANGED <<registry, inputs>>

EvaluateResponse ==
    /\ ret' = [op |-> "evaluate_response",
               scores |-> evaluate_response(evaluator, response, ground_truth, question)]
    /\ UNCHANGED <<registry, inputs>>

InitEval ==
    /\ RegistryInit
    /\ directory = <<>>
    /\ NoSubject
    /\ \/ ConstraintInputs
       \/ CriteriaInputs
       \/ CaseInputs
       \/ MedicalInputs
       \/ AccuracyInputs

NextEval ==
    \/ CheckConstraints
    \/ EvaluateAgainstCases
    \/ \E scores \in ScoreMaps : CalculateWeightedScore(scores)
    \/ EvaluateResponse

SpecEval == InitEval /\ [][NextEval]_vars
----------------------------------------------------------------------------
(* Claims about scoring *)

TheConstraints == evaluator.domain_config.knowledge.constraints

TheCriteria == evaluator.domain_config.knowledge.quality_criteria

Declares(name) == \E i \in 1..Len(TheCriteria) : TheCriteria[i].name = name

\* the number of constraints the scorer of this kind detects as violated
DetectedViolations ==
    Cardinality({i \in 1..Len(TheConstraints) :
        CASE evaluator.kind = "base" -> _violates_constraint(response, TheConstraints[i])
          [] evaluator.kind = "medical" ->
                 _violates_medical_constraint(response, TheConstraints[i])
          [] evaluator.kind = "facade" -> basic_violation(response, TheConstraints[i])})

\* the constraint_compliance reported by the last operation, if it reports one
ReportedCompliance ==
    IF ret.op = "check_constraints" THEN Some(ret.value)
    ELSE IF ret.op = "evaluate_response" /\ ~Declares("constraint_compliance")
    THEN dict_get(ret.scores, "constraint_compliance")
    ELSE None

\* C5 as stated: with an empty constraints list, constraint_compliance is
\* exactly 1.0 on the base evaluator, the medical evaluator and the facade's
\* fallback, whatever the response.
C5_EmptyConstraintsScoreOne ==
    (TheConstraints = <<>> /\ ReportedCompliance # None) => ReportedCompliance = Some(One)

\* C5: with an empty constraints list, constraint_compliance is exactly 1.0
\* on the base evaluator and on the facade's fallback; on the medical
\* evaluator it is 1 - d/7, d being the number of built-in dangerous-phrasing
\* patterns the response matches, so 1.0 only when it matches none.
C5_EmptyConstraints ==
    (TheConstraints = <<>> /\ ReportedCompliance # None) =>
        ReportedCompliance =
            Some(IF evaluator.kind = "medical"
                 THEN Frac(Len(DANGEROUS_PATTERNS) - dangerous_hits(response),
                           Len(DANGEROUS_PATTERNS))
                 ELSE One)

C5_Witness ==
    /\ ret.op = "check_constraints"
    /\ evaluator.kind = "medical"
    /\ TheConstraints = <<>>
    /\ dangerous_hits(response) >= 2
    /\ ret.value = Frac(5, 7)

\* C6 as stated: with N >= 1 constraints of which k are detected as violated,
\* constraint_compliance is 1 - k/N, never below 0, on the base evaluator, the
\* medical evaluator and the facade's fallback.
C6_ComplianceIsOneMinusKOverN ==
    (TheConstraints # <<>> /\ ReportedCompliance # None) =>
        ReportedCompliance =
            Some(rmax(Zero, rsub(One, Frac(DetectedViolations, Len(TheConstraints)))))

\* C6: with N >= 1 constraints of which k are detected as violated,
\* constraint_compliance is 1 - k/N on the base evaluator and the facade's
\* fallback, and max(0, 1 - (k + d)/(N + 7)) on the medical evaluator, whose
\* 7 built-in patterns count as checks and whose d matched patterns count as
\* violations; it is never below 0.
C6_Compliance ==
    (TheConstraints # <<>> /\ ReportedCompliance # None) =>
        /\ ReportedCompliance =
               Some(IF evaluator.kind = "medical"
                    THEN rmax(Zero,
                              rsub(One, Frac(DetectedViolations + dangerous_hits(response),
                                             Len(TheConstraints) + Len(DANGEROUS_PATTERNS))))
                    ELSE rsub(One, Frac(DetectedViolations, Len(TheConstraints))))
        /\ rle(Zero, ReportedCompliance[1])

C6_Witness ==
    /\ ret.op = "check_constraints"
    /\ evaluator.kind = "medical"
    /\ Len(TheConstraints) = 2
    /\ DetectedViolations = 1
    /\ dangerous_hits(response) = 1
    /\ ret.value = Frac(7, 9)

\* C7: every value of the score map evaluate_response returns, "overall"
\* included, lies in [0,1], for the base and medical evaluators and for the
\* facade's fallback, with criterion weights in [0,1].
C7_ScoresInUnitInterval ==
    ret.op = "evaluate_response" =>
        \A i \in 1..Len(ret.scores) :
            rle(Zero, ret.scores[i][2]) /\ rle(ret.scores[i][2], One)

C7_Witness ==
    /\ ret.op = "evaluate_response"
    /\ evaluator.kind = "medical"
    /\ Declares("anjeon")
    /\ dangerous_hits(response) >= 3
    /\ dict_get(ret.scores, "anjeon") = Some(Zero)

\* the keys of the last score map
ScoreKeys == Range(dict_keys(ret.scores))

CaseMatches ==
    /\ question # <<>>
    /\ _find_matching_cases(evaluator.domain_config, question) # <<>>

EvaluateRan == ret.op = "evaluate_response" /\ evaluator.kind # "facade"

\* C8 as stated: the score map of evaluate holds overall,
\* constraint_compliance, principle_alignment and one key per criterion name;
\* accuracy exactly when ground_truth is non-empty, case_coverage exactly
\* when the question is non-empty and a library case matches it.
C8_KeysFollowInputsOnly ==
    EvaluateRan =>
        /\ {"overall", "constraint_compliance", "principle_alignment"} \subseteq ScoreKeys
        /\ \A i \in 1..Len(TheCriteria) : TheCriteria[i].name \in ScoreKeys
        /\ "accuracy" \in ScoreKeys <=> ground_truth # <<>>
        /\ "case_coverage" \in ScoreKeys <=> CaseMatches

\* C8: the score map of evaluate holds exactly these keys, each once:
\* overall, constraint_compliance, principle_alignment, one key per criterion
\* name, accuracy when ground_truth is non-empty, case_coverage when the
\* question is non-empty and a library case matches it.  accuracy and
\* case_coverage are absent otherwise unless a criterion carries that name.
C8_KeySet ==
    EvaluateRan =>
        /\ ScoreKeys =
               {"overall", "constraint_compliance", "principle_alignment"}
                   \cup {TheCriteria[i].name : i \in 1..Len(TheCriteria)}
                   \cup (IF ground_truth # <<>> THEN {"accuracy"} ELSE {})
                   \cup (IF CaseMatches THEN {"case_coverage"} ELSE {})
        /\ Cardinality(ScoreKeys) = Len(ret.scores)
        /\ "accuracy" \in ScoreKeys <=> (ground_truth # <<>> \/ Declares("accuracy"))
        /\ "case_coverage" \in ScoreKeys <=> (CaseMatches \/ Declares("case_coverage"))

C8_Witness ==
    /\ EvaluateRan
    /\ ground_truth = <<>>
    /\ ~CaseMatches
    /\ Declares("accuracy")
    /\ ~Declares("case_coverage")
    /\ "accuracy" \in ScoreKeys
    /\ "case_coverage" \notin ScoreKeys

RECURSIVE rsum(_)
rsum(values) == IF values = <<>> THEN Zero ELSE radd(Head(values), rsum(Tail(values)))

\* the weight the claim gives a metric: the declared weight of the criterion
\* of that name (the last one so named), else the standard default, else 0.1
ClaimedWeight(metric) ==
    LET named == {i \in 1..Len(TheCriteria) : TheCriteria[i].name = metric} IN
    IF named # {} THEN TheCriteria[CHOOSE i \in named : \A j \in named : j <= i].weight
    ELSE CASE metric = "accuracy" -> Frac(30, 100)
           [] metric = "constraint_compliance" -> Frac(25, 100)
           [] metric = "principle_alignment" -> Frac(20, 100)
           [] metric = "case_coverage" -> Frac(25, 100)
           [] OTHER -> Frac(1, 10)

\* the weighted mean of the sub-scores of a score map
ClaimedOverall(scores) ==
    LET subs == SelectSeq(scores, LAMBDA e : e[1] # "overall")
        total == rsum([i \in 1..Len(subs) |-> ClaimedWeight(subs[i][1])])
        weighted == rsum([i \in 1..Len(subs) |-> rmul(subs[i][2], ClaimedWeight(subs[i][1]))])
    IN IF subs = <<>> \/ total = Zero THEN Zero ELSE rdiv(weighted, total)

\* C9: overall is the weighted mean of the other sub-scores, a metric's
\* weight being the declared weight of the criterion of that name, else
\* 0.30/0.25/0.20/0.25 for accuracy/constraint_compliance/
\* principle_alignment/case_coverage, else 0.1; it is 0.0 when there is no
\* sub-score or the total weight is 0.
C9_OverallIsWeightedMean ==
    /\ EvaluateRan => dict_get(ret.scores, "overall") = Some(ClaimedOverall(ret.scores))
    /\ ret.op = "calculate_weighted_score" => ret.value = ClaimedOverall(ret.scores)

C9_Witness ==
    /\ EvaluateRan
    /\ ground_truth # <<>>
    /\ Len(TheCriteria) = 2
    /\ TheCriteria[1] = QualityCriterion("accuracy", One)
    /\ TheCriteria[2] = QualityCriterion("principle_alignment", Zero)
    /\ evaluator.kind = "base"
    /\ CaseMatches
    /\ dict_get(ret.scores, "overall") = Some(Frac(2, 3))

\* the cases of the library whose question matches the question asked
MatchingCases == _find_matching_cases(evaluator.domain_config, question)

\* found / |elements|, case-insensitively, or the given value for no elements
FoundFraction(elements, ifEmpty) ==
    IF elements = <<>> THEN ifEmpty
    ELSE Frac(Cardinality({i \in 1..Len(elements) :
                              contains(lower(response), lower(elements[i]))}),
              Len(elements))

ClaimedCaseScore(case) ==
    rmax(Zero, rsub(FoundFraction(case.expected_elements, One),
                    FoundFraction(case.forbidden_elements, Zero)))

ClaimedCoverage ==
    rdiv(rsum([i \in 1..Len(MatchingCases) |-> ClaimedCaseScore(MatchingCases[i])]),
         Frac(Len(MatchingCases), 1))

\* the case_coverage reported by the last operation, if it reports one
ReportedCoverage ==
    IF ret.op = "evaluate_against_cases" THEN ret.value
    ELSE IF EvaluateRan /\ ~Declares("case_coverage")
    THEN dict_get(ret.scores, "case_coverage")
    ELSE None

\* C10: when cases match the question, case_coverage is the mean over the
\* matching cases of max(0, found_expected/|expected| - found_forbidden/
\* |forbidden|), matching case-insensitively, an empty expected list counting
\* as 1 and an empty forbidden list as 0; it is never negative.
C10_CaseCoverageIsMean ==
    (question # <<>> /\ MatchingCases # <<>>
        /\ (ret.op = "evaluate_against_cases" \/ (EvaluateRan /\ ~Declares("case_coverage")))) =>
        /\ ReportedCoverage = Some(ClaimedCoverage)
        /\ rle(Zero, ReportedCoverage[1])

C10_Witness ==
    /\ ret.op = "evaluate_against_cases"
    /\ Len(MatchingCases) = 2
    /\ Len(get_all_cases(evaluator.domain_config.case_library)) = 3
    /\ ClaimedCaseScore(MatchingCases[1]) = One
    /\ MatchingCases[2].forbidden_elements # <<>>
    /\ ClaimedCaseScore(MatchingCases[2]) = Zero
    /\ ret.value = Some(Frac(1, 2))
----------------------------------------------------------------------------
(* The facade's validation sweep (DomainAwarePromptOptimizer)              *)
(* The callback generate_response_fn is a sequence of outcomes, one per    *)
(* call in call order: Raised or Returned(text).  A long text holds the    *)
(* symbol "b x 197", a run of 197 letters b; the texts here are cut at a   *)
(* symbol boundary.                                                        *)

\* a case score without the floor
_evaluate_case_response_unfloored(resp, case) ==
    LET response_lower == lower(resp)
        expected == case.expected_elements
        forbidden == case.forbidden_elements
        expected_found ==
            Cardinality({i \in 1..Len(expected) : contains(response_lower, lower(expected[i]))})
        forbidden_found ==
            Cardinality({i \in 1..Len(forbidden) : contains(response_lower, lower(forbidden[i]))})
    IN IF resp = <<>> THEN Zero
       ELSE rsub(IF expected # <<>> THEN Frac(expected_found, Len(expected)) ELSE One,
                 Frac(forbidden_found, 4))

\* DomainAwarePromptOptimizer._evaluate_case_response
_evaluate_case_response(resp, case) ==
    LET response_lower == lower(resp)
        expected == case.expected_elements
        forbidden == case.forbidden_elements
        expected_found ==
            Cardinality({i \in 1..Len(expected) : contains(response_lower, lower(expected[i]))})
        expected_score ==
            IF expected # <<>> THEN Frac(expected_found, Len(expected)) ELSE One
        forbidden_found ==
            Cardinality({i \in 1..Len(forbidden) : contains(response_lower, lower(forbidden[i]))})
        forbidden_penalty == rmul(Frac(forbidden_found, 1), Frac(25, 100))
    IN IF resp = <<>> THEN Zero
       ELSE rmax(Zero, rsub(expected_score, forbidden_penalty))

\* the 200 of response[:200] and len(response) > 200
ResponseLimit == 200

\* text[:n]
RECURSIVE prefix(_, _)
prefix(text, n) ==
    IF text = <<>> \/ sym_len(Head(text)) > n THEN <<>>
    ELSE <<Head(text)>> \o prefix(Tail(text), n - sym_len(Head(text)))

\* a record's response cut to the limit, without the ellipsis
record_response_cut(resp) == prefix(resp, ResponseLimit)

\* response[:200] + "..." if len(response) > 200 else response
record_response(resp) ==
    IF len(resp) > ResponseLimit
    THEN prefix(resp, ResponseLimit) \o <<".", ".", ".">>
    ELSE resp

\* a sweep step that leaves a failed case out
validate_step_skip(acc, case, outcome, logger) ==
    IF ~outcome.ok THEN acc
    ELSE [total_score |-> radd(acc.total_score, _evaluate_case_response(outcome.value, case)),
          results |-> Append(acc.results,
                             [question |-> case.question, category |-> case.category,
                              score |-> _evaluate_case_response(outcome.value, case),
                              response |-> record_response(outcome.value)]),
          warnings |-> acc.warnings]

\* the try/except around the callback: the response, "" when it raised
generated(outcome) == IF outcome.ok THEN outcome.value ELSE <<>>

\* one turn of the for loop of validate_against_cases
validate_step(acc, case, outcome, logger) ==
    LET resp == generated(outcome)
        case_score == _evaluate_case_response(resp, case)
    IN [total_score |-> radd(acc.total_score, case_score),
        results |-> Append(acc.results,
                           [question |-> case.question, category |-> case.category,
                            score |-> case_score, response |-> record_response(resp)]),
        warnings |-> IF ~outcome.ok /\ logger THEN acc.warnings + 1 ELSE acc.warnings]

RECURSIVE validate_scan(_, _, _)
validate_scan(all_cases, generate_response_fn, logger) ==
    IF all_cases = <<>> THEN [total_score |-> Zero, results |-> <<>>, warnings |-> 0]
    ELSE LET n == Len(all_cases) IN
         validate_step(validate_scan(SubSeq(all_cases, 1, n - 1), generate_response_fn, logger),
                       all_cases[n], generate_response_fn[n], logger)

\* DomainAwarePromptOptimizer.validate_against_cases
validate_against_cases(config, generate_response_fn, logger) ==
    LET all_cases == get_all_cases(config.case_library) IN
    IF all_cases = <<>> THEN [overall_score |-> One, results |-> <<>>, warnings |-> 0]
    ELSE LET swept == validate_scan(all_cases, generate_response_fn, logger) IN
         [overall_score |-> rdiv(swept.total_score, Frac(Len(all_cases), 1)),
          results |-> swept.results, warnings |-> swept.warnings]

\* the texts a callback returns, call by call: one short text, one text of
\* 200 characters, one of 201, or the last two in turn
ReturnedTexts ==
    {[i \in 1..(MaxCases + 2) |-> <<"A", " ", "c">>],
     [i \in 1..(MaxCases + 2) |-> <<"a", " ", "c", "b x 197">>],
     [i \in 1..(MaxCases + 2) |-> <<"a", " ", "c", "b x 197", "b">>],
     [i \in 1..(MaxCases + 2) |-> IF i % 2 = 1 THEN <<"a", " ", "c", "b x 197">>
                     ELSE <<"a", " ", "c", "b x 197", "b">>]}

\* the callbacks of n calls: any of the calls raise, the others return
Callbacks(n) ==
    {[i \in 1..n |-> IF i \in failing THEN Raised ELSE Returned(texts[i])] :
        failing \in SUBSET (1..n), texts \in ReturnedTexts}

Categorised(case, category) == [case EXCEPT !.category = category]

ValidateCases ==
    {CaseExample(W("a"), <<W("a"), W("d")>>, <<W("c")>>),
     CaseExample(W("b"), <<W("d"), W("B")>>, <<W("a"), W("c"), W(" ")>>)}

EdgeCase == Categorised(CaseExample(W("c"), <<>>, <<>>), "edge")

CommonCase == Categorised(CaseExample(W("d"), <<W("A")>>, <<W("C")>>), "common")

ValidateLibraries ==
    {CaseLibrary(critical, rest[1], rest[2]) :
        critical \in SeqUpTo(ValidateCases, MaxCases),
        rest \in {<<<<>>, <<>>>>, <<<<EdgeCase>>, <<CommonCase>>>>}}

Optimizer(domain_config, logger) ==
    [kind |-> "optimizer", domain_config |-> domain_config, logger |-> logger]

ValidateAgainstCases ==
    /\ subject.kind = "optimizer"
    /\ ret' = [op |-> "validate_against_cases",
               value |-> validate_against_cases(subject.domain_config,
                                                args.generate_response_fn, subject.logger)]
    /\ UNCHANGED <<registry, inputs>>

EvaluateCaseResponse(resp, case) ==
    /\ subject.kind = "optimizer"
    /\ ret' = [op |-> "_evaluate_case_response", response |-> resp, case |-> case,
               value |-> _evaluate_case_response(resp, case)]
    /\ UNCHANGED <<registry, inputs>>

InitValidate ==
    /\ RegistryInit
    /\ directory = <<>>
    /\ evaluator = [kind |-> "none"]
    /\ response = <<>>
    /\ ground_truth = <<>>
    /\ question = <<>>
    /\ \E case_library \in ValidateLibraries, logger \in BOOLEAN :
          /\ subject = Optimizer(ConfigOfKnowledge(NoKnowledge, case_library), logger)
          /\ \E generate_response_fn \in Callbacks(Len(get_all_cases(case_library))) :
                 args = [generate_response_fn |-> generate_response_fn]

NextValidate ==
    \/ ValidateAgainstCases
    \/ \E i, j \in 1..Len(get_all_cases(subject.domain_config.case_library)) :
          EvaluateCaseResponse(generated(args.generate_response_fn[j]),
                               get_all_cases(subject.domain_config.case_library)[i])

SpecValidate == InitValidate /\ [][NextValidate]_vars
----------------------------------------------------------------------------
(* Claims about the validation sweep *)

\* found elements of a list in a response, ignoring case
FoundIn(resp, elements) ==
    Cardinality({i \in 1..Len(elements) : contains(lower(resp), lower(elements[i]))})

\* expected-element recall, 1 for an empty expected list
Recall(resp, case) ==
    IF case.expected_elements = <<>> THEN One
    ELSE Frac(FoundIn(resp, case.expected_elements), Len(case.expected_elements))

\* max(0, recall - 0.25 x forbidden elements found)
PenalisedRecall(resp, case) ==
    rmax(Zero, rsub(Recall(resp, case), Frac(FoundIn(resp, case.forbidden_elements), 4)))

\* C11 as stated: on the facade path a case's score is max(0, recall - 0.25 x
\* forbidden elements found) for every case and every response.
C11_ScoreIsPenalisedRecall ==
    ret.op = "_evaluate_case_response" => ret.value = PenalisedRecall(ret.response, ret.case)

\* C11: on the facade path a case's score is 0 for an empty response and
\* max(0, recall - 0.25 x forbidden elements found) for every other one,
\* ignoring case; it is never negative and never above 1.
C11_CaseScore ==
    ret.op = "_evaluate_case_response" =>
        /\ ret.value = IF ret.response = <<>> THEN Zero
                       ELSE PenalisedRecall(ret.response, ret.case)
        /\ rle(Zero, ret.value)
        /\ rle(ret.value, One)

C11_Witness ==
    /\ ret.op = "_evaluate_case_response"
    /\ ret.case.expected_elements = <<W("a"), W("d")>>
    /\ ret.case.forbidden_elements = <<W("c")>>
    /\ ret.response = <<"A", " ", "c">>
    /\ ret.value = Frac(1, 4)

TheCases == get_all_cases(subject.domain_config.case_library)

TheLibrary == subject.domain_config.case_library

SweepRan == ret.op = "validate_against_cases"

\* C12: whichever calls of the callback raise, with or without a logger,
\* validate_against_cases returns; its records are one per case of the
\* library in (critical, edge, common) order, and the record of a failed
\* case has an empty response and score 0.
C12_SweepSurvivesFailures ==
    SweepRan =>
        /\ Len(ret.value.results) = Len(TheLibrary.critical_cases)
                                      + Len(TheLibrary.edge_cases)
                                      + Len(TheLibrary.common_cases)
        /\ \A i \in 1..Len(ret.value.results) :
              /\ ret.value.results[i].question =
                     (TheLibrary.critical_cases \o TheLibrary.edge_cases
                          \o TheLibrary.common_cases)[i].question
              /\ ret.value.results[i].category =
                     (TheLibrary.critical_cases \o TheLibrary.edge_cases
                          \o TheLibrary.common_cases)[i].category
              /\ ~args.generate_response_fn[i].ok =>
                     /\ ret.value.results[i].response = <<>>
                     /\ ret.value.results[i].score = Zero

C12_Witness ==
    /\ SweepRan
    /\ Len(TheCases) = 4
    /\ ~subject.logger
    /\ ~args.generate_response_fn[1].ok
    /\ args.generate_response_fn[2].ok
    /\ ~args.generate_response_fn[3].ok
    /\ Len(ret.value.results) = 4
    /\ ret.value.results[3].category = "edge"
    /\ ret.value.results[4].category = "common"

RECURSIVE SumOfScores(_)
SumOfScores(results) ==
    IF results = <<>> THEN Zero
    ELSE radd(Head(results).score, SumOfScores(Tail(results)))

\* C13 as stated: validate_against_cases returns the mean of the per-case
\* scores and records whose response field is never longer than 200
\* characters.
C13_RecordedResponseWithinLimit ==
    SweepRan =>
        \A i \in 1..Len(ret.value.results) : len(ret.value.results[i].response) <= ResponseLimit

\* C13: validate_against_cases returns the mean of the per-case scores (1.0
\* for an empty library) and one record (question, category, score,
\* response) per case; the response field is the generated response when
\* that has at most 200 characters, else its first 200 characters followed
\* by "...", so it is never longer than 203.
C13_MeanAndCutResponse ==
    SweepRan =>
        /\ ret.value.overall_score =
               IF TheCases = <<>> THEN One
               ELSE rdiv(SumOfScores(ret.value.results), Frac(Len(TheCases), 1))
        /\ \A i \in 1..Len(ret.value.results) :
              LET resp == generated(args.generate_response_fn[i])
                  kept == ret.value.results[i].response
              IN /\ ret.value.results[i].score = _evaluate_case_response(resp, TheCases[i])
                 /\ len(resp) <= ResponseLimit => kept = resp
                 /\ len(resp) > ResponseLimit =>
                        /\ len(kept) = ResponseLimit + 3
                        /\ SubSeq(kept, 1, Len(kept) - 3) = SubSeq(resp, 1, Len(kept) - 3)
                        /\ SubSeq(kept, Len(kept) - 2, Len(kept)) = <<".", ".", ".">>

C13_Witness ==
    /\ SweepRan
    /\ Len(TheCases) = 2
    /\ len(generated(args.generate_response_fn[1])) = ResponseLimit
    /\ ret.value.results[1].response = generated(args.generate_response_fn[1])
    /\ len(generated(args.generate_response_fn[2])) = ResponseLimit + 1
    /\ len(ret.value.results[2].response) = ResponseLimit + 3
    /\ ret.value.overall_score \notin {Zero, One}
----------------------------------------------------------------------------
(* Claims about the factory *)

\* C14: create_domain_optimizer raises exactly when no custom config is
\* given and the identifier is neither registered nor one of medical, legal,
\* finance; otherwise it returns a facade whose config is the custom config,
\* else the registered config of that identifier, else the built-in one.
C14_FactoryRaisesOnlyOnUnknown ==
    ret.op = "create_domain_optimizer" =>
        /\ ~ret.result.ok <=>
               /\ ret.custom_config = None
               /\ ~dict_has(_domains, ret.domain_type)
               /\ ret.domain_type \notin {"medical", "legal", "finance"}
        /\ ret.result.ok =>
               IF ret.custom_config # None
               THEN ret.result.value.domain_config = ret.custom_config[1]
               ELSE IF dict_has(_domains, ret.domain_type)
               THEN Some(ret.result.value.domain_config) = dict_get(_domains, ret.domain_type)
               ELSE ret.result.value.domain_config.domain_type = ret.domain_type
----------------------------------------------------------------------------
(* Prompt generation.  A prompt is a text; the fixed Korean lines of the    *)
(* code are one symbol each, written in Latin letters:                      *)
(*   "dangsineun " 당신은   " bunyaui jeonmungaimnida." 분야의 전문가입니다.      *)
(*   "(eopseum)" (없음)   "(gibon pumjil gijun jeogyong)" (기본 품질 기준 적용)    *)
(*   " (gajungchi: " (가중치:                                                 *)
(* A template is a text in which "{" and "}" are symbols of their own.      *)

\* DomainKnowledge with the fields the prompts read
PromptKnowledge(principles, constraints, quality_criteria, thinking_styles, expert_personas) ==
    [principles |-> principles, constraints |-> constraints,
     quality_criteria |-> quality_criteria, thinking_styles |-> thinking_styles,
     expert_personas |-> expert_personas]

\* DomainConfig with its templates
PromptConfig(domain_type, domain_name, knowledge, critique_template, refinement_template) ==
    [domain_type |-> domain_type, domain_name |-> domain_name, knowledge |-> knowledge,
     case_library |-> CaseLibrary(<<>>, <<>>, <<>>),
     critique_template |-> critique_template,
     refinement_template |-> refinement_template]

ExpertPersona(role, focus, background, thinking_approach) ==
    [role |-> role, focus |-> focus, background |-> background,
     thinking_approach |-> thinking_approach]

DescribedCriterion(name, weight, description) ==
    [name |-> name, weight |-> weight, description |-> description]

\* "\n".join(lines)
RECURSIVE join_lines(_)
join_lines(lines) ==
    IF lines = <<>> THEN <<>>
    ELSE IF Len(lines) = 1 THEN lines[1]
    ELSE lines[1] \o <<"\n">> \o join_lines(Tail(lines))

\* int(x * 100) of a fraction x >= 0, as text
percent(x) == ToString((x[1] * 100) \div x[2])

\* DomainCritiqueGenerator._format_list
_format_list(items) ==
    IF items = <<>> THEN <<"(eopseum)">>
    ELSE join_lines([i \in 1..Len(items) |-> <<ToString(i), ".", " ">> \o items[i]])

\* DomainCritiqueGenerator._format_criteria
_format_criteria(domain_config) ==
    LET criteria == domain_config.knowledge.quality_criteria
        line(qc) == <<"-", " ", qc.name, " (gajungchi: ", percent(qc.weight), "%", ")">>
                    \o (IF qc.description # <<>> THEN <<" ", "-", " ">> \o qc.description
                        ELSE <<>>)
    IN IF criteria = <<>> THEN <<"(gibon pumjil gijun jeogyong)">>
       ELSE join_lines([i \in 1..Len(criteria) |-> line(criteria[i])])

\* DomainCritiqueGenerator._format_scores; scores is a dict
_format_scores(scores) ==
    IF scores = <<>> THEN <<>>
    ELSE join_lines([i \in 1..Len(scores) |->
                        <<"-", " ", scores[i][1], ":", " ", percent(scores[i][2]), "%">>])

\* The field of a replacement field that starts a template: the symbols up
\* to the closing brace.  [closed, name, rest]
RECURSIVE field_scan(_, _)
field_scan(t, name) ==
    IF t = <<>> \/ Head(t) = "{" THEN [closed |-> FALSE, name |-> name, rest |-> t]
    ELSE IF Head(t) = "}" THEN [closed |-> TRUE, name |-> name, rest |-> Tail(t)]
    ELSE field_scan(Tail(t), Append(name, Head(t)))

\* str.format(**variables), left to right: "{{" and "}}" are braces, a lone
\* brace is a ValueError, a field without a name or with a number is a
\* positional one (IndexError: there are no positional arguments), a field
\* with an unknown name is a KeyError.
RECURSIVE format_scan(_, _, _)
format_scan(t, variables, out) ==
    IF t = <<>> THEN Returned(out)
    ELSE IF Head(t) = "{"
    THEN IF Len(t) >= 2 /\ t[2] = "{"
         THEN format_scan(SubSeq(t, 3, Len(t)), variables, Append(out, "{"))
         ELSE LET f == field_scan(Tail(t), <<>>) IN
              IF ~f.closed THEN RaisedError("ValueError")
              ELSE IF \A i \in 1..Len(f.name) : f.name[i] \in Digits
              THEN RaisedError("IndexError")
              ELSE IF Len(f.name) = 1 /\ dict_has(variables, f.name[1])
              THEN format_scan(f.rest, variables,
                               out \o dict_get(variables, f.name[1])[1])
              ELSE RaisedError("KeyError")
    ELSE IF Head(t) = "}"
    THEN IF Len(t) >= 2 /\ t[2] = "}"
         THEN format_scan(SubSeq(t, 3, Len(t)), variables, Append(out, "}"))
         ELSE RaisedError("ValueError")
    ELSE format_scan(Tail(t), variables, Append(out, Head(t)))

str_format(template, variables) == format_scan(template, variables, <<>>)

\* str.replace(old, new): the occurrences of old from left to right
RECURSIVE str_replace(_, _, _)
str_replace(text, old, new) ==
    IF Len(text) < Len(old) THEN text
    ELSE IF SubSeq(text, 1, Len(old)) = old
    THEN new \o str_replace(SubSeq(text, Len(old) + 1, Len(text)), old, new)
    ELSE <<Head(text)>> \o str_replace(Tail(text), old, new)

\* for key, value in variables.items(): template = template.replace("{key}", value)
RECURSIVE replace_all(_, _)
replace_all(template, variables) ==
    IF variables = <<>> THEN template
    ELSE replace_all(str_replace(template, <<"{", variables[1][1], "}">>, variables[1][2]),
                     Tail(variables))

\* try: template.format(**variables)  except KeyError: the literal replacement
format_template(template, variables) ==
    LET formatted == str_format(template, variables) IN
    IF formatted.ok THEN formatted
    ELSE IF formatted.error = "KeyError" THEN Returned(replace_all(template, variables))
    ELSE formatted
\* DomainCritiqueGenerator._format_custom_template
_format_custom_template(domain_config, instruction, examples, scores) ==
    format_template(domain_config.critique_template,
        << <<"instruction", instruction>>,
           <<"examples", examples>>,
           <<"domain_type", <<domain_config.domain_type>> >>,
           <<"domain_name", <<domain_config.domain_name>> >>,
           <<"principles", _format_list(domain_config.knowledge.principles)>>,
           <<"constraints", _format_list(domain_config.knowledge.constraints)>>,
           <<"quality_criteria", _format_criteria(domain_config)>>,
           <<"thinking_styles", _format_list(domain_config.knowledge.thinking_styles)>>,
           <<"scores", IF scores # <<>> THEN _format_scores(scores) ELSE <<>> >> >>)

\* DomainCritiqueGenerator._format_refinement_template
_format_refinement_template(domain_config, instruction, examples, critique) ==
    format_template(domain_config.refinement_template,
        << <<"instruction", instruction>>,
           <<"examples", examples>>,
           <<"critique", critique>>,
           <<"domain_type", <<domain_config.domain_type>> >>,
           <<"domain_name", <<domain_config.domain_name>> >>,
           <<"principles", _format_list(domain_config.knowledge.principles)>>,
           <<"constraints", _format_list(domain_config.knowledge.constraints)>>,
           <<"thinking_styles", _format_list(domain_config.knowledge.thinking_styles)>> >>)

\* "당신은 {domain_name} 분야의 전문가입니다."
identity_line(domain_config) ==
    <<"dangsineun ", domain_config.domain_name, " bunyaui jeonmungaimnida.">>

\* the five points of the critique request
CritiquePoints ==
    <<"1. domein wonchik banyeongdo", "2. jeyakjogeon junsu", "3. pumjil gijun chungjok",
      "4. jeonmunseong sujun", "5. guchejeok gaeseon jean">>

\* DomainCritiqueGenerator._generate_default_critique; the headings of the
\* principles and constraints sections are written without their
\* parenthesised hints
_generate_default_critique(domain_config, instruction, examples, scores) ==
    identity_line(domain_config) \o <<"\n">>
    \o <<"daeum peurompeuteu jisimungwa yeje eungdabeul pyeonggahago gaeseonjeomeul jesihaseyo.",
         "\n", "\n">>
    \o <<"## hyeonjae peurompeuteu jisimun:", "\n">> \o instruction \o <<"\n", "\n">>
    \o <<"## yeje eungdap:", "\n">> \o examples \o <<"\n", "\n">>
    \o <<"## domein wonchik:", "\n">>
    \o _format_list(domain_config.knowledge.principles) \o <<"\n", "\n">>
    \o <<"## domein jeyakjogeon:", "\n">>
    \o _format_list(domain_config.knowledge.constraints) \o <<"\n", "\n">>
    \o <<"## pumjil pyeongga gijun:", "\n">> \o _format_criteria(domain_config) \o <<"\n">>
    \o (IF scores # <<>>
        THEN <<"\n", "## hyeonjae pyeongga jeomsu:", "\n">> \o _format_scores(scores) \o <<"\n">>
        ELSE <<>>)
    \o <<"\n", "## bipyeong yocheong:", "\n",
         "wiui domein jisigeul batangeuro daeum gwanjeomeseo peurompeuteureul bipyeonghaejuseyo:",
         "\n">>
    \o join_lines([i \in 1..Len(CritiquePoints) |-> <<CritiquePoints[i]>>])
    \o <<"\n", "\n", "bipyeong gyeolgwareul sangsehi jakseonghaejuseyo.", "\n">>

\* a critique prompt that never shows the scores
generate_critique_prompt_scoreless(domain_config, instruction, examples, evaluation_scores) ==
    IF domain_config.critique_template # <<>>
    THEN _format_custom_template(domain_config, instruction, examples, <<>>)
    ELSE Returned(_generate_default_critique(domain_config, instruction, examples, <<>>))

\* DomainCritiqueGenerator.generate_critique_prompt
generate_critique_prompt(domain_config, instruction, examples, evaluation_scores) ==
    IF domain_config.critique_template # <<>>
    THEN _format_custom_template(domain_config, instruction, examples, evaluation_scores)
    ELSE Returned(_generate_default_critique(domain_config, instruction, examples,
                                             evaluation_scores))

\* a framing with the last persona of the list
refinement_persona_last(domain_config) ==
    domain_config.knowledge.expert_personas[Len(domain_config.knowledge.expert_personas)]

\* persona = self.domain_config.knowledge.expert_personas[0]
refinement_persona(domain_config) == domain_config.knowledge.expert_personas[1]

\* DomainCritiqueGenerator._generate_default_refinement
_generate_default_refinement(domain_config, instruction, examples, critique) ==
    LET expert_context ==
            IF domain_config.knowledge.expert_personas # <<>>
            THEN LET persona == refinement_persona(domain_config) IN
                 <<"dangsineun ", persona.role, "roseo, ", persona.focus, "e jipjunghamnida.">>
            ELSE <<>>
    IN <<"## yeokhal", "\n">>
       \o (IF expert_context # <<>> THEN expert_context ELSE identity_line(domain_config))
       \o <<"\n", "\n">>
       \o <<"## hyeonjae peurompeuteu jisimun:", "\n">> \o instruction \o <<"\n", "\n">>
       \o <<"## bipyeong naeyong:", "\n">> \o critique \o <<"\n", "\n">>
       \o <<"## domein haeksim wonchik:", "\n">>
       \o _format_list(domain_config.knowledge.principles) \o <<"\n", "\n">>
       \o <<"## junsuhaeya hal jeyakjogeon:", "\n">>
       \o _format_list(domain_config.knowledge.constraints) \o <<"\n", "\n">>
       \o <<"## gwonjang sagobangsik:", "\n">>
       \o _format_list(domain_config.knowledge.thinking_styles) \o <<"\n", "\n">>
       \o <<"## gaeseon yocheong:", "\n",
            "wiui bipyeonggwa domein jisigeul batangeuro peurompeuteureul gaeseonhaejuseyo.",
            "\n", "\n",
            "gaeseon si daeum sahangeul bandeusi pohamhaseyo:", "\n",
            "1. domein wonchigi myeongsijeogeuro banyeongdoedorok sujeong", "\n",
            "2. jeyakjogeon wibaneul bangjihaneun gaideurain chuga", "\n",
            "3. jeonmunga sagobangsigeul yudohaneun jisimun poham", "\n",
            "4. pumjil gijuneul chungjokhadorok guchehwa", "\n", "\n",
            "gaeseondoen peurompeuteureul ", "<IMPROVED_PROMPT></IMPROVED_PROMPT>",
            " taegeu ane jakseonghaejuseyo.", "\n">>

\* DomainCritiqueGenerator.generate_refinement_prompt
generate_refinement_prompt(domain_config, instruction, examples, critique) ==
    IF domain_config.refinement_template # <<>>
    THEN _format_refinement_template(domain_config, instruction, examples, critique)
    ELSE Returned(_generate_default_refinement(domain_config, instruction, examples, critique))

\* DomainAwarePromptOptimizer.get_domain_expert_prompt
get_domain_expert_prompt(domain_config) ==
    LET personas == domain_config.knowledge.expert_personas IN
    IF personas = <<>> THEN identity_line(domain_config)
    ELSE LET primary == personas[1] IN
         <<"dangsineun ", primary.role, "imnida.", "\n",
           "jeonmun bunya: ", primary.focus, "\n",
           "baegyeong: ", primary.background, "\n",
           "jeopgeun bangsik: ", primary.thinking_approach>>

\* the 3 of principles[:3] and constraints[:3]
TopItems == 3

\* a block that shows every item
top_items_all(items) == items

\* items[:3]
top_items(items) == SubSeq(items, 1, IF Len(items) < TopItems THEN Len(items) ELSE TopItems)

\* "\n".join(f"- {p}" for p in items)
bullet_lines(items) == join_lines([i \in 1..Len(items) |-> <<"-", " ">> \o items[i]])

\* DomainAwarePromptOptimizer.enhance_base_instruction
enhance_base_instruction(domain_config, base_instruction) ==
    LET knowledge == domain_config.knowledge
        identity == <<identity_line(domain_config)>>
        with_principles ==
            IF knowledge.principles # <<>>
            THEN Append(identity, <<"\n", "haeksim wonchik:", "\n">>
                                  \o bullet_lines(top_items(knowledge.principles)))
            ELSE identity
        domain_context_parts ==
            IF knowledge.constraints # <<>>
            THEN Append(with_principles, <<"\n", "junsusahang:", "\n">>
                                         \o bullet_lines(top_items(knowledge.constraints)))
            ELSE with_principles
    IN join_lines(domain_context_parts) \o <<"\n", "\n">> \o base_instruction
----------------------------------------------------------------------------
(* Prompt generation: the inputs are drawn once, the operations format them *)

MaxPieces == 3
MaxItems == 4

\* The pieces templates are made of: a known, a refinement-only and an
\* unknown named field, an empty and a numbered field, lone braces, doubled
\* braces and plain text.
TemplatePieces ==
    {<<"{", "instruction", "}">>, <<"{", "critique", "}">>, <<"{", "unknown", "}">>,
     <<"{", "}">>, <<"{", "1", "}">>, <<"{">>, <<"}">>, <<"{", "{">>, <<"}", "}">>, <<"x">>}

RECURSIVE Templates(_)
Templates(n) ==
    IF n = 0 THEN {<<>>}
    ELSE Templates(n - 1) \cup {t \o p : t \in Templates(n - 1), p \in TemplatePieces}

\* the sequences without repetition over a set, up to a length
RECURSIVE Arrangements(_, _)
Arrangements(S, n) ==
    IF n = 0 THEN {<<>>}
    ELSE LET shorter == Arrangements(S, n - 1) IN
         shorter \cup UNION {{Append(q, x) : x \in S \ Range(q)} :
                                q \in {r \in shorter : Len(r) = n - 1}}

PromptArgs(instruction, examples, critique, scores, base_instruction) ==
    [instruction |-> instruction, examples |-> examples, critique |-> critique,
     scores |-> scores, base_instruction |-> base_instruction]

PlainArgs == PromptArgs(<<"I">>, <<"E">>, <<"Q">>, <<>>, <<"B", " ", "b">>)

EmptyArgs == PromptArgs(<<>>, <<>>, <<>>, <<>>, <<>>)

Personas ==
    {ExpertPersona("r1", "f1", "g1", "t1"), ExpertPersona("r2", "f2", "g2", "t2")}

PrincipleItems == {W("p1"), W("p2"), W("p3"), W("p4")}

ConstraintItems == <<W("c1"), W("c2"), W("c3"), W("c4")>>

PromptCriteria ==
    {<<>>,
     <<DescribedCriterion("accuracy", Frac(1, 2), <<>>)>>,
     <<DescribedCriterion("safety", Frac(1, 4), W("d1")),
       DescribedCriterion("accuracy", Frac(1, 2), <<>>)>>}

PromptScores ==
    {<<>>,
     << <<"accuracy", Frac(1, 2)>> >>,
     << <<"accuracy", One>>, <<"overall", Frac(1, 4)>> >>}

\* configs with a custom template (the empty template is no template)
TemplateInputs ==
    \E template \in Templates(MaxPieces) :
        /\ subject = Optimizer(PromptConfig("custom", "D",
                                   PromptKnowledge(<<W("p1")>>, <<>>, <<>>, <<>>, <<>>),
                                   template, template), FALSE)
        /\ args = PlainArgs

\* configs with longer lists of principles and constraints
ListInputs ==
    \E principles \in Arrangements(PrincipleItems, MaxItems),
       n \in 0..Len(ConstraintItems), a \in {PlainArgs, EmptyArgs} :
        /\ subject = Optimizer(PromptConfig("custom", "D",
                                   PromptKnowledge(principles, SubSeq(ConstraintItems, 1, n),
                                                   <<>>, <<>>, <<>>),
                                   <<>>, <<>>), FALSE)
        /\ args = a

\* configs without templates, with and without every kind of knowledge
DefaultInputs ==
    \E principles \in {<<>>, <<W("p1")>>, <<W("p1"), W("p2")>>},
       constraints \in {<<>>, <<W("c1")>>},
       quality_criteria \in PromptCriteria,
       thinking_styles \in {<<>>, <<W("s1")>>},
       expert_personas \in Arrangements(Personas, 2),
       scores \in PromptScores,
       a \in {PlainArgs, EmptyArgs} :
        /\ subject = Optimizer(PromptConfig("custom", "D",
                                   PromptKnowledge(principles, constraints, quality_criteria,
                                                   thinking_styles, expert_personas),
                                   <<>>, <<>>), FALSE)
        /\ args = [a EXCEPT !.scores = scores]

GenerateCritiquePrompt ==
    /\ subject.kind = "optimizer"
    /\ ret' = [op |-> "generate_critique_prompt",
               result |-> generate_critique_prompt(subject.domain_config, args.instruction,
                                                   args.examples, args.scores)]
    /\ UNCHANGED <<registry, inputs>>

GenerateRefinementPrompt ==
    /\ subject.kind = "optimizer"
    /\ ret' = [op |-> "generate_refinement_prompt",
               result |-> generate_refinement_prompt(subject.domain_config, args.instruction,
                                                     args.examples, args.critique)]
    /\ UNCHANGED <<registry, inputs>>

GetDomainExpertPrompt ==
    /\ subject.kind = "optimizer"
    /\ ret' = [op |-> "get_domain_expert_prompt",
               result |-> Returned(get_domain_expert_prompt(subject.domain_config))]
    /\ UNCHANGED <<registry, inputs>>

EnhanceBaseInstruction ==
    /\ subject.kind = "optimizer"
    /\ ret' = [op |-> "enhance_base_instruction",
               result |-> Returned(enhance_base_instruction(subject.domain_config,
                                                            args.base_instruction))]
    /\ UNCHANGED <<registry, inputs>>

InitPrompt ==
    /\ RegistryInit
    /\ directory = <<>>
    /\ evaluator = [kind |-> "none"]
    /\ response = <<>>
    /\ ground_truth = <<>>
    /\ question = <<>>
    /\ \/ TemplateInputs
       \/ ListInputs
       \/ DefaultInputs

NextPrompt ==
    \/ GenerateCritiquePrompt
    \/ GenerateRefinementPrompt
    \/ GetDomainExpertPrompt
    \/ EnhanceBaseInstruction

SpecPrompt == InitPrompt /\ [][NextPrompt]_vars
----------------------------------------------------------------------------
(* Claims about prompt generation *)

\* C15: with a non-empty custom critique or refinement template, prompt
\* generation never raises, whatever the template holds.
C15_CustomTemplateNeverRaises ==
    (/\ ret.op \in {"generate_critique_prompt", "generate_refinement_prompt"}
     /\ (ret.op = "generate_critique_prompt" => subject.domain_config.critique_template # <<>>)
     /\ (ret.op = "generate_refinement_prompt"
            => subject.domain_config.refinement_template # <<>>))
    => ret.result.ok
\* the places of a symbol in a text
Places(text, sym) == {i \in 1..Len(text) : text[i] = sym}

\* the place of a symbol that occurs once
Place(text, sym) == CHOOSE i \in Places(text, sym) : TRUE

\* the text that follows a heading line
Under(text, heading, body) ==
    /\ Cardinality(Places(text, heading)) = 1
    /\ LET at == Place(text, heading) IN
       /\ at + 1 + Len(body) <= Len(text)
       /\ text[at + 1] = "\n"
       /\ SubSeq(text, at + 2, at + 1 + Len(body)) = body

\* markers come in this order, each once
InOrder(text, markers) ==
    /\ \A i \in 1..Len(markers) : Cardinality(Places(text, markers[i])) = 1
    /\ \A i \in 1..(Len(markers) - 1) : Place(text, markers[i]) < Place(text, markers[i + 1])

DefaultCritiqueRan ==
    /\ ret.op = "generate_critique_prompt"
    /\ subject.domain_config.critique_template = <<>>

\* C16: without a custom critique template the critique prompt is a
\* non-empty text whose sections come in the order persona framing,
\* instruction, examples, principles, constraints, quality criteria,
\* scores, critique request; the five points of the request are always
\* there, and the scores section is there exactly when a non-empty score
\* map was passed.
C16_DefaultCritiqueSections ==
    DefaultCritiqueRan =>
        /\ ret.result.ok
        /\ LET text == ret.result.value
               knowledge == subject.domain_config.knowledge
               scored == args.scores # <<>>
           IN /\ text # <<>>
              /\ text[1] = "dangsineun " /\ text[2] = subject.domain_config.domain_name
              /\ InOrder(text,
                    <<"dangsineun ", "## hyeonjae peurompeuteu jisimun:", "## yeje eungdap:",
                      "## domein wonchik:", "## domein jeyakjogeon:",
                      "## pumjil pyeongga gijun:">>
                    \o (IF scored THEN <<"## hyeonjae pyeongga jeomsu:">> ELSE <<>>)
                    \o <<"## bipyeong yocheong:",
                         "1. domein wonchik banyeongdo", "2. jeyakjogeon junsu",
                         "3. pumjil gijun chungjok", "4. jeonmunseong sujun",
                         "5. guchejeok gaeseon jean">>)
              /\ Under(text, "## hyeonjae peurompeuteu jisimun:", args.instruction)
              /\ Under(text, "## yeje eungdap:", args.examples)
              /\ Under(text, "## domein wonchik:",
                       IF knowledge.principles = <<>> THEN <<"(eopseum)">>
                       ELSE <<"1", ".", " ">> \o knowledge.principles[1])
              /\ Under(text, "## domein jeyakjogeon:",
                       IF knowledge.constraints = <<>> THEN <<"(eopseum)">>
                       ELSE <<"1", ".", " ">> \o knowledge.constraints[1])
              /\ Under(text, "## pumjil pyeongga gijun:",
                       IF knowledge.quality_criteria = <<>>
                       THEN <<"(gibon pumjil gijun jeogyong)">>
                       ELSE <<"-", " ", knowledge.quality_criteria[1].name>>)
              /\ scored <=> Places(text, "## hyeonjae pyeongga jeomsu:") # {}
              /\ scored => Under(text, "## hyeonjae pyeongga jeomsu:",
                                 <<"-", " ", args.scores[1][1], ":", " ">>)

\* a critique prompt with scores, of a config without any knowledge
C16_Witness ==
    /\ DefaultCritiqueRan
    /\ ret.result.ok
    /\ subject.domain_config.knowledge.principles = <<>>
    /\ subject.domain_config.knowledge.constraints = <<>>
    /\ subject.domain_config.knowledge.quality_criteria = <<>>
    /\ Len(args.scores) = 2
    /\ Places(ret.result.value, "5. guchejeok gaeseon jean") # {}
DefaultRefinementRan ==
    /\ ret.op = "generate_refinement_prompt"
    /\ subject.domain_config.refinement_template = <<>>

\* every item of a list is in the text as a numbered line, an empty list as
\* its placeholder
Numbered(text, heading, items) ==
    IF items = <<>> THEN Under(text, heading, <<"(eopseum)">>)
    ELSE /\ Under(text, heading, <<"1", ".", " ">> \o items[1])
         /\ \A i \in 1..Len(items) : contains(text, <<ToString(i), ".", " ">> \o items[i])

\* the personas after the first that share neither role nor focus with it
LaterPersonas ==
    LET personas == subject.domain_config.knowledge.expert_personas IN
    {personas[i] : i \in 2..Len(personas)}

\* C17: without a custom refinement template the refinement prompt is
\* framed with the persona at index 0 when there are personas and with the
\* generic domain-name sentence otherwise, never with a later persona; it
\* embeds the instruction, the critique, the principles, the constraints
\* and the thinking styles and always holds the
\* <IMPROVED_PROMPT></IMPROVED_PROMPT> delimiter.  The facade's expert
\* prompt is framed with the same persona.
C17_RefinementUsesPrimaryPersona ==
    LET config == subject.domain_config
        personas == config.knowledge.expert_personas
        generic == <<"dangsineun ", config.domain_name, " bunyaui jeonmungaimnida.">>
    IN /\ DefaultRefinementRan =>
            /\ ret.result.ok
            /\ LET text == ret.result.value IN
               /\ Under(text, "## yeokhal",
                        IF personas # <<>>
                        THEN <<"dangsineun ", personas[1].role, "roseo, ", personas[1].focus,
                               "e jipjunghamnida.">>
                        ELSE generic)
               /\ \A later \in LaterPersonas :
                      Places(text, later.role) = {} /\ Places(text, later.focus) = {}
               /\ InOrder(text, <<"## yeokhal", "## hyeonjae peurompeuteu jisimun:",
                                  "## bipyeong naeyong:", "## domein haeksim wonchik:",
                                  "## junsuhaeya hal jeyakjogeon:", "## gwonjang sagobangsik:",
                                  "## gaeseon yocheong:",
                                  "<IMPROVED_PROMPT></IMPROVED_PROMPT>">>)
               /\ Under(text, "## hyeonjae peurompeuteu jisimun:", args.instruction)
               /\ Under(text, "## bipyeong naeyong:", args.critique)
               /\ Numbered(text, "## domein haeksim wonchik:", config.knowledge.principles)
               /\ Numbered(text, "## junsuhaeya hal jeyakjogeon:", config.knowledge.constraints)
               /\ Numbered(text, "## gwonjang sagobangsik:", config.knowledge.thinking_styles)
       /\ ret.op = "get_domain_expert_prompt" =>
            /\ ret.result.ok
            /\ LET text == ret.result.value IN
               IF personas = <<>> THEN text = generic
               ELSE /\ SubSeq(text, 1, 3) = <<"dangsineun ", personas[1].role, "imnida.">>
                    /\ contains(text, <<"jeonmun bunya: ", personas[1].focus>>)
                    /\ \A later \in LaterPersonas : Places(text, later.role) = {}

\* a refinement prompt of a config with two personas
C17_Witness ==
    /\ DefaultRefinementRan
    /\ ret.result.ok
    /\ Len(subject.domain_config.knowledge.expert_personas) = 2
    /\ Places(ret.result.value, subject.domain_config.knowledge.expert_personas[1].role) # {}
    /\ Places(ret.result.value, "<IMPROVED_PROMPT></IMPROVED_PROMPT>") # {}

\* "- item" lines, each after a line break
RECURSIVE Bulleted(_)
Bulleted(items) ==
    IF items = <<>> THEN <<>>
    ELSE <<"\n", "-", " ">> \o Head(items) \o Bulleted(Tail(items))

\* a titled block of the first three items, nothing for an empty list
Block(title, items) ==
    IF items = <<>> THEN <<>>
    ELSE <<"\n", "\n", title>>
         \o Bulleted([i \in 1..(IF Len(items) < 3 THEN Len(items) ELSE 3) |-> items[i]])

\* C18: enhance_base_instruction returns the domain identity line, then at
\* most the first three principles in list order, then at most the first
\* three constraints in list order, then the base instruction unchanged at
\* the end; an empty list has no block and an item at index 3 or later
\* never appears.
C18_EnhanceShowsTopThree ==
    ret.op = "enhance_base_instruction" =>
        /\ ret.result.ok
        /\ LET text == ret.result.value
               config == subject.domain_config
               principles == config.knowledge.principles
               constraints == config.knowledge.constraints
           IN /\ text = <<"dangsineun ", config.domain_name, " bunyaui jeonmungaimnida.">>
                        \o Block("haeksim wonchik:", principles)
                        \o Block("junsusahang:", constraints)
                        \o <<"\n", "\n">> \o args.base_instruction
              /\ \A i \in 4..Len(principles) : ~contains(text, principles[i])
              /\ \A i \in 4..Len(constraints) : ~contains(text, constraints[i])
              /\ (principles = <<>>) <=> Places(text, "haeksim wonchik:") = {}
              /\ (constraints = <<>>) <=> Places(text, "junsusahang:") = {}

\* an enhanced instruction of a config with four principles and no constraint
C18_Witness ==
    /\ ret.op = "enhance_base_instruction"
    /\ ret.result.ok
    /\ Len(subject.domain_config.knowledge.principles) = 4
    /\ subject.domain_config.knowledge.constraints = <<>>
    /\ args.base_instruction # <<>>
    /\ contains(ret.result.value, subject.domain_config.knowledge.principles[3])
----------------------------------------------------------------------------
(* Validators (validators.py) *)

KeywordValidator(keywords, must_include) ==
    [kind |-> "KeywordValidator", keywords |-> keywords, must_include |-> must_include]

\* [k for k in self.keywords if k.lower() in content_lower]
found_keywords(validator, content) ==
    LET content_lower == lower(content)
        found(k) == contains(content_lower, lower(k))
    IN SelectSeq(validator.keywords, found)

\* a validator that counts each found keyword once
KeywordValidator_validate_distinct(validator, content) ==
    LET found == Cardinality(Range(found_keywords(validator, content))) IN
    IF validator.must_include THEN found = Len(validator.keywords) ELSE found = 0

\* KeywordValidator.validate
KeywordValidator_validate(validator, content) ==
    LET found == found_keywords(validator, content) IN
    IF validator.must_include THEN Len(found) = Len(validator.keywords)
    ELSE Len(found) = 0

MaxKeywords == 2

KeywordTexts == {<<>>, <<"a">>, <<"A">>, <<"B">>, <<"a", "b">>}

ContentTexts ==
    SeqUpTo({"a", "A", "b", "B"}, 2) \cup {<<"a", " ", "b">>, <<"B", " ", "A">>}

Validate ==
    /\ subject.kind = "KeywordValidator"
    /\ ret' = [op |-> "validate", value |-> KeywordValidator_validate(subject, args.content)]
    /\ UNCHANGED <<registry, inputs>>

InitKeyword ==
    /\ RegistryInit
    /\ directory = <<>>
    /\ evaluator = [kind |-> "none"]
    /\ response = <<>>
    /\ ground_truth = <<>>
    /\ question = <<>>
    /\ \E keywords \in SeqUpTo(KeywordTexts, MaxKeywords), must_include \in BOOLEAN,
          content \in ContentTexts :
          /\ subject = KeywordValidator(keywords, must_include)
          /\ args = [content |-> content]

NextKeyword == Validate

SpecKeyword == InitKeyword /\ [][NextKeyword]_vars
----------------------------------------------------------------------------
(* Claims about the validators *)

\* the keyword occurs in the text when case is ignored
OccursIgnoringCase(text, keyword) ==
    \E i \in 0..(Len(text) - Len(keyword)) :
        \A j \in 1..Len(keyword) : lower_sym(text[i + j]) = lower_sym(keyword[j])

\* C19: KeywordValidator.validate is true exactly when, with must_include,
\* every keyword occurs in the text ignoring case and, without it, no
\* keyword occurs in the text ignoring case; for every keyword list,
\* duplicates and the empty list included.
C19_KeywordValidator ==
    ret.op = "validate" =>
        (ret.value <=>
            IF subject.must_include
            THEN \A i \in 1..Len(subject.keywords) :
                     OccursIgnoringCase(args.content, subject.keywords[i])
            ELSE \A i \in 1..Len(subject.keywords) :
                     ~OccursIgnoringCase(args.content, subject.keywords[i]))

\* a list that names one keyword twice, found in another case
C19_Witness ==
    /\ ret.op = "validate"
    /\ ret.value
    /\ subject.must_include
    /\ Len(subject.keywords) = 2
    /\ subject.keywords[1] = subject.keywords[2]
    /\ subject.keywords[1] # <<>>
    /\ ~contains(args.content, subject.keywords[1])
----------------------------------------------------------------------------
(* from_dict: documents with nested entries.  A document is a function    *)
(* from its keys; a key that is absent is not in its domain.               *)

MaxEntries == 1

\* one key of a document, or none
Field(key, optional) == IF optional = None THEN <<>> ELSE key :> optional[1]

\* a value that may be absent
Optional(S) == {None} \cup {Some(v) : v \in S}

\* Entries of quality_criteria: only the required keys, an optional key, a
\* key the dataclass does not know, a required key missing, no mapping.
CriterionEntries ==
    {Entry(<< <<"name", "accuracy">>, <<"weight", <<1, 2>> >> >>),
     Entry(<< <<"name", "safety">>, <<"weight", <<1, 4>> >>, <<"description", W("d1")>> >>),
     Entry(<< <<"name", "accuracy">>, <<"weight", <<1, 2>> >>, <<"threshold", <<1, 2>> >> >>),
     Entry(<< <<"name", "accuracy">> >>),
     Scalar}

PersonaEntries ==
    {Entry(<< <<"role", "r1">>, <<"focus", "f1">> >>),
     Entry(<< <<"role", "r1">>, <<"focus", "f1">>, <<"nickname", "n1">> >>)}

CaseEntries ==
    {Entry(<< <<"question", W("a")>> >>),
     Entry(<< <<"question", W("a")>>, <<"expected_elements", <<W("b")>> >> >>),
     Entry(<< <<"question", W("a")>>, <<"category", W("own")>> >>),
     Entry(<< <<"question", W("a")>>, <<"source", W("s")>> >>),
     Scalar}

KnowledgeDocuments ==
    {Field("principles", principles) @@ Field("quality_criteria", quality_criteria)
        @@ Field("expert_personas", expert_personas) @@ Field("glossary", glossary) :
        principles \in Optional({<<W("p1")>>}),
        quality_criteria \in Optional(SeqUpTo(CriterionEntries, MaxEntries)),
        expert_personas \in Optional(SeqUpTo(PersonaEntries, MaxEntries)),
        glossary \in Optional({"g"})}

\* the entries of a bucket: category, cases and an unknown key, each optional
CategoryDocuments ==
    {Field("category", category) @@ Field("cases", cases) @@ Field("owner", owner) :
        category \in Optional({W("c")}),
        cases \in Optional(SeqUpTo(CaseEntries, MaxEntries)),
        owner \in Optional({"o"})}

LibraryDocuments ==
    {Field("critical_cases", critical_cases) @@ Field("common_cases", common_cases)
        @@ Field("archived_cases", archived_cases) :
        critical_cases \in Optional({<<c>> : c \in CategoryDocuments}),
        common_cases \in
            Optional({<< [category |-> W("c"), cases |-> <<Entry(<< <<"question", W("a")>> >>)>>] >>}),
        archived_cases \in Optional({<<>>})}

KnowledgeSamples ==
    {<<>>,
     [quality_criteria |-> <<Entry(<< <<"name", "accuracy">>, <<"weight", <<1, 2>> >> >>)>>],
     [expert_personas |-> <<Entry(<< <<"role", "r1">>, <<"focus", "f1">>,
                                     <<"nickname", "n1">> >>)>>]}

LibrarySamples ==
    {[critical_cases |-> << [cases |-> <<Entry(<< <<"question", W("a")>> >>)>>] >>],
     [critical_cases |->
         << [cases |-> <<Entry(<< <<"question", W("a")>>, <<"source", W("s")>> >>)>>] >>]}

ConfigDocuments ==
    {Field("domain_type", domain_type) @@ Field("tacit_knowledge", tacit_knowledge)
        @@ Field("knowledge", knowledge) @@ Field("case_library", case_library)
        @@ Field("critique_template", critique_template) @@ Field("version", version) :
        domain_type \in Optional({"legal"}),
        tacit_knowledge \in Optional(KnowledgeSamples),
        knowledge \in Optional(KnowledgeSamples),
        case_library \in Optional(LibrarySamples),
        critique_template \in Optional({<<"x">>}),
        version \in Optional({"v"})}

\* the dict of a criterion / of a persona in DomainConfig.to_dict
criterion_dict(qc) ==
    Entry(<< <<"name", qc.name>>, <<"weight", qc.weight>>, <<"description", qc.description>> >>)

persona_dict(ep) ==
    Entry(<< <<"role", ep.role>>, <<"focus", ep.focus>>, <<"background", ep.background>> >>)

\* DomainConfig.to_dict (description, terminology, patterns, anti_patterns
\* and metadata are copied like the other plain fields and left out here)
DomainConfig_to_dict(config) ==
    [domain_type |-> config.domain_type,
     domain_name |-> config.domain_name,
     tacit_knowledge |->
        [principles |-> config.knowledge.principles,
         constraints |-> config.knowledge.constraints,
         quality_criteria |->
            [i \in 1..Len(config.knowledge.quality_criteria) |->
                criterion_dict(config.knowledge.quality_criteria[i])],
         thinking_styles |-> config.knowledge.thinking_styles,
         expert_personas |->
            [i \in 1..Len(config.knowledge.expert_personas) |->
                persona_dict(config.knowledge.expert_personas[i])]],
     critique_template |-> config.critique_template,
     refinement_template |-> config.refinement_template]

\* criteria, personas and cases as the dataclasses hold them
StoredCriteria ==
    {[name |-> "accuracy", weight |-> <<1, 2>>, description |-> <<>>,
      evaluation_prompt |-> <<>>],
     [name |-> "safety", weight |-> <<1, 4>>, description |-> W("d1"),
      evaluation_prompt |-> W("e1")]}

StoredPersonas ==
    {[role |-> "r1", focus |-> "f1", background |-> <<>>, thinking_approach |-> <<>>],
     [role |-> "r2", focus |-> "f2", background |-> "g2", thinking_approach |-> "t2"]}

StoredCase ==
    [question |-> W("a"), expected_elements |-> <<W("b")>>, forbidden_elements |-> <<>>,
     category |-> W("c"), difficulty |-> <<"medium">>, explanation |-> <<>>]

StoredConfigs ==
    {[domain_type |-> "legal", domain_name |-> "B",
      knowledge |-> [principles |-> principles, constraints |-> <<>>,
                     quality_criteria |-> quality_criteria,
                     thinking_styles |-> <<>>, expert_personas |-> expert_personas],
      case_library |-> CaseLibrary(critical_cases, <<>>, <<>>),
      critique_template |-> critique_template, refinement_template |-> <<>>] :
        principles \in {<<>>, <<W("p1")>>},
        quality_criteria \in SeqUpTo(StoredCriteria, MaxEntries),
        expert_personas \in SeqUpTo(StoredPersonas, MaxEntries),
        critical_cases \in {<<>>, <<StoredCase>>},
        critique_template \in {<<>>, <<"x">>}}

ToDictFromDict ==
    /\ subject.kind = "config"
    /\ ret' = [op |-> "to_dict", document |-> DomainConfig_to_dict(subject.domain_config),
               result |-> DomainConfig_from_dict(DomainConfig_to_dict(subject.domain_config))]
    /\ UNCHANGED <<registry, inputs>>

DomainKnowledgeFromDict ==
    /\ subject.kind = "DomainKnowledge"
    /\ ret' = [op |-> "from_dict", result |-> DomainKnowledge_from_dict(args.data)]
    /\ UNCHANGED <<registry, inputs>>

CaseLibraryFromDict ==
    /\ subject.kind = "CaseLibrary"
    /\ ret' = [op |-> "from_dict", result |-> CaseLibrary_from_dict(args.data)]
    /\ UNCHANGED <<registry, inputs>>

DomainConfigFromDict ==
    /\ subject.kind = "DomainConfig"
    /\ ret' = [op |-> "from_dict", result |-> DomainConfig_from_dict(args.data)]
    /\ UNCHANGED <<registry, inputs>>

InitFromDict ==
    /\ RegistryInit
    /\ directory = <<>>
    /\ evaluator = [kind |-> "none"]
    /\ response = <<>>
    /\ ground_truth = <<>>
    /\ question = <<>>
    /\ \/ \E data \in KnowledgeDocuments :
             subject = [kind |-> "DomainKnowledge"] /\ args = [data |-> data]
       \/ \E data \in LibraryDocuments :
             subject = [kind |-> "CaseLibrary"] /\ args = [data |-> data]
       \/ \E data \in ConfigDocuments :
             subject = [kind |-> "DomainConfig"] /\ args = [data |-> data]
       \/ \E domain_config \in StoredConfigs :
             subject = [kind |-> "config", domain_config |-> domain_config] /\ args = <<>>

NextFromDict ==
    \/ DomainKnowledgeFromDict
    \/ CaseLibraryFromDict
    \/ DomainConfigFromDict
    \/ ToDictFromDict

SpecFromDict == InitFromDict /\ [][NextFromDict]_vars
----------------------------------------------------------------------------
(* Claims about from_dict *)

\* every mapping among the entries carries the required keys
Complete(entries, required) ==
    \A i \in 1..Len(entries) :
        entries[i].is_dict => \A f \in required : dict_has(entries[i].items, f)

KnowledgeComplete(data) ==
    /\ Complete(doc_get(data, "quality_criteria", <<>>), {"name", "weight"})
    /\ Complete(doc_get(data, "expert_personas", <<>>), {"role", "focus"})

LibraryComplete(data) ==
    \A bucket \in {"critical_cases", "edge_cases", "common_cases"} :
        LET cases_data == doc_get(data, bucket, <<>>) IN
        \A i \in 1..Len(cases_data) :
            Complete(doc_get(cases_data[i], "cases", <<>>), {"question"})

\* the document lacks optional keys or carries unknown ones, nothing else
OnlyOptionalMissing ==
    CASE subject.kind = "config" -> TRUE
      [] subject.kind = "DomainKnowledge" -> KnowledgeComplete(args.data)
      [] subject.kind = "CaseLibrary" -> LibraryComplete(args.data)
      [] OTHER ->
            /\ KnowledgeComplete(doc_get(args.data, "tacit_knowledge",
                                         doc_get(args.data, "knowledge", <<>>)))
            /\ LibraryComplete(doc_get(args.data, "case_library", <<>>))

\* C20: from_dict on DomainConfig, DomainKnowledge and CaseLibrary never
\* raises on a document that lacks optional keys or carries unknown extra
\* keys, at the top level or inside the entries of quality_criteria,
\* expert_personas and cases.
C20_FromDictNeverRaises ==
    (ret.op = "from_dict" /\ OnlyOptionalMissing) => ret.result.ok
\* a config with every criterion's evaluation_prompt and every persona's
\* thinking_approach reset to empty
Projected(config) ==
    [config EXCEPT
        !.knowledge.quality_criteria =
            [i \in 1..Len(@) |-> [@[i] EXCEPT !.evaluation_prompt = <<>>]],
        !.knowledge.expert_personas =
            [i \in 1..Len(@) |-> [@[i] EXCEPT !.thinking_approach = <<>>]]]

\* C21: from_dict(to_dict(c)) equals c in domain_type, domain_name,
\* templates, case_library and knowledge, except that each criterion's
\* evaluation_prompt and each persona's thinking_approach are reset to empty.
C21_ToDictRoundTrip ==
    ret.op = "to_dict" =>
        /\ ret.result.ok
        /\ ret.result.value = Projected(subject.domain_config)
----------------------------------------------------------------------------
(* Emergency handling of the medical evaluator *)

\* emergency_indicators of evaluate_emergency_handling
emergency_indicators ==
    {W("gapjagi"), W("simhan"), <<"geuk", "simhan">>,
     <<"chameul", " ", "su", " ", "eops">>, W("uisik"), W("hoheupgonran"),
     W("chulhyeol"), W("mabi"), W("baljak")}

\* the keyword lists of the three checks
emergency_services == {W("119"), <<"eunggeup", "sil">>, W("eunggeup")}

urgency_keywords == {W("jeuksi"), W("baro"), W("jigeum"), W("ppalli")}

early_keywords == {W("119"), W("eunggeup"), W("jeuksi")}

FirstChars == 100

\* a handler that looks for the early keywords in the whole response
evaluate_emergency_handling_anywhere(resp, asked) ==
    LET response_lower == lower(resp) IN
    IF ~contains_any(lower(asked), emergency_indicators) THEN One
    ELSE radd(radd(IF contains_any(response_lower, emergency_services)
                   THEN Frac(1, 2) ELSE Zero,
                   IF contains_any(response_lower, urgency_keywords)
                   THEN Frac(3, 10) ELSE Zero),
              IF contains_any(response_lower, early_keywords) THEN Frac(1, 5) ELSE Zero)

\* MedicalDomainEvaluator.evaluate_emergency_handling
evaluate_emergency_handling(resp, asked) ==
    LET question_lower == lower(asked)
        response_lower == lower(resp)
        is_emergency == contains_any(question_lower, emergency_indicators)
        services == IF contains_any(response_lower, emergency_services)
                    THEN Frac(1, 2) ELSE Zero
        urgency == IF contains_any(response_lower, urgency_keywords)
                   THEN Frac(3, 10) ELSE Zero
        first_100_chars == prefix(response_lower, FirstChars)
        early == IF contains_any(first_100_chars, early_keywords)
                 THEN Frac(1, 5) ELSE Zero
    IN IF ~is_emergency THEN One
       ELSE radd(radd(radd(Zero, services), urgency), early)

EmergencyQuestions ==
    {<<>>, <<"a", " ", "b">>, <<"gapjagi", " ", "a">>, <<"a", "geuk", "simhan">>,
     <<"chameul", " ", "su", " ", "eops">>, <<"chameul", " ", "su">>, <<"A", " ", "baljak">>}

\* what a response opens with: nothing, 98, 99 or 101 characters
Preambles == {<<>>, <<"b x 98">>, <<"b x 98", "a">>, <<"b x 98", "a", " ", "b">>}

ServiceWords == {<<>>, W("119"), W("eunggeup"), <<"eunggeup", "sil">>}

UrgencyWords == {<<>>, W("jeuksi"), W("baro"), W("ppalli")}

EmergencyResponses ==
    {preamble \o first \o middle \o second :
        preamble \in Preambles,
        first \in ServiceWords \cup UrgencyWords,
        middle \in {<<" ">>, <<"b x 98">>},
        second \in ServiceWords \cup UrgencyWords}

EvaluateEmergencyHandling ==
    /\ ret' = [op |-> "evaluate_emergency_handling",
               value |-> evaluate_emergency_handling(response, question)]
    /\ UNCHANGED <<registry, inputs>>

InitEmergency ==
    /\ RegistryInit
    /\ directory = <<>>
    /\ evaluator = [kind |-> "medical"]
    /\ ground_truth = <<>>
    /\ subject = <<>>
    /\ args = <<>>
    /\ response \in EmergencyResponses
    /\ question \in EmergencyQuestions

NextEmergency == EvaluateEmergencyHandling

SpecEmergency == InitEmergency /\ [][NextEmergency]_vars
----------------------------------------------------------------------------
(* Claims about emergency handling *)

\* the number of characters before the symbol at index i
Offset(text, i) == len(SubSeq(text, 1, i - 1))

\* a keyword occurs in the text and ends within the first n characters
OccursWithin(text, keywords, n) ==
    \E kw \in keywords, i \in 1..Len(text) :
        /\ i + Len(kw) - 1 <= Len(text)
        /\ \A j \in 1..Len(kw) : text[i + j - 1] = kw[j]
        /\ Offset(text, i) + len(kw) <= n

NamesEmergencyContact == OccursWithin(response, emergency_services, len(response))

SignalsUrgency == OccursWithin(response, urgency_keywords, len(response))

SurfacesEarly == OccursWithin(response, early_keywords, FirstChars)

HasEmergencyIndicator == OccursWithin(question, emergency_indicators, len(question))

\* C22: for a question with an emergency indicator the score is 1.0 exactly
\* when the response names an emergency contact, signals urgency and surfaces
\* it within the first 100 characters; it is below 1.0 when one is missing, 0
\* when none holds, and 1.0 less the early component (0.2) when only the
\* early surfacing is missing.  Without an indicator the score is 1.0.
C22_EmergencyHandling ==
    ret.op = "evaluate_emergency_handling" =>
        IF ~HasEmergencyIndicator THEN ret.value = One
        ELSE /\ ret.value = One <=> (NamesEmergencyContact /\ SignalsUrgency /\ SurfacesEarly)
             /\ ~(NamesEmergencyContact /\ SignalsUrgency /\ SurfacesEarly) => rlt(ret.value, One)
             /\ ~(NamesEmergencyContact \/ SignalsUrgency \/ SurfacesEarly) => ret.value = Zero
             /\ (NamesEmergencyContact /\ SignalsUrgency /\ ~SurfacesEarly)
                    => ret.value = rsub(One, Frac(1, 5))

\* an emergency question answered with contact and urgency after the first
\* 100 characters
C22_Witness ==
    /\ ret.op = "evaluate_emergency_handling"
    /\ HasEmergencyIndicator
    /\ NamesEmergencyContact /\ SignalsUrgency /\ ~SurfacesEarly
    /\ len(response) > FirstChars
    /\ ret.value = Frac(4, 5)
----------------------------------------------------------------------------
(* Repeated evaluation between registry operations *)

\* a scorer that counts the registered domains into its result
evaluate_registered(ev, resp, truth, q) ==
    << <<"overall", Frac(Len(_domains), 1)>> >>

\* evaluator.evaluate(...) on the evaluator under test
evaluate_call(ev, resp, truth, q) == evaluate(ev, resp, truth, q)

\* the evaluators under test: DomainEvaluator.__init__ and
\* MedicalDomainEvaluator.__init__ keep the config; the compiled patterns
\* are DANGEROUS_PATTERNS
RepeatEvaluators ==
    {Evaluator(kind,
               DomainConfig("medical", "A",
                            DomainKnowledge(principles, <<<<"jindan", " ", "geumji">>>>,
                                            <<QualityCriterion("Safety", Frac(1, 4))>>),
                            CaseLibrary(<<CaseExample(W("a"), <<W("a")>>, <<W("xyz")>>)>>,
                                        <<>>, <<>>)),
               Frac(1, 2)) :
        kind \in {"base", "medical"}, principles \in {<<>>, <<W("geungeo")>>}}

\* the (response, ground_truth, question) of a call
RepeatCalls ==
    {<<<<>>, <<>>, <<>>>>,
     <<<<"a", " ", "uisa">>, <<>>, W("a")>>,
     <<<<"a", " ", "uisa">>, W("a"), W("a")>>,
     <<<<"imnida", ".", " ", "xyz">>, W("a"), <<>>>>,
     <<<<"bandeusi", " ", "bogyong">>, <<>>, W("A")>>}

\* evaluate, with a log of what each call returned
Evaluate(call) ==
    LET scores == evaluate_call(evaluator, call[1], call[2], call[3]) IN
    /\ ret' = [op |-> "evaluate", call |-> call, scores |-> scores]
    /\ subject' = [subject EXCEPT
                      !.returned = @ \cup {<<call, scores>>},
                      !.repeated = IF \E x \in subject.returned : x[1] = call
                                   THEN @ \cup {call} ELSE @]
    /\ UNCHANGED <<registry, evaluator, response, ground_truth, question, args>>

InitRepeat ==
    /\ RegistryInit
    /\ directory = <<>>
    /\ evaluator \in RepeatEvaluators
    /\ response = <<>>
    /\ ground_truth = <<>>
    /\ question = <<>>
    /\ subject = [kind |-> "evaluations", returned |-> {}, repeated |-> {}]
    /\ args = <<>>

NextRepeat ==
    \/ \E call \in RepeatCalls : Evaluate(call)
    \/ RegisterDomain(evaluator.domain_config, Some("MedicalDomainEvaluator"))
    \/ Clear

SpecRepeat == InitRepeat /\ [][NextRepeat]_vars

----------------------------------------------------------------------------
(* Extraction of the refined prompt in critique_and_refine *)

\* DatasetSpecificProcessing.TEXT_DELIMITER_PATTERN: the text between the
\* standard start and end delimiters
TEXT_DELIMITER_PATTERN == [open |-> "<START>", close |-> "<END>", consumes |-> FALSE]

\* r'<IMPROVED_PROMPT>(.*?)</IMPROVED_PROMPT>' with re.DOTALL
domain_pattern ==
    [open |-> "<IMPROVED_PROMPT>", close |-> "</IMPROVED_PROMPT>", consumes |-> TRUE]

\* the index of the first symbol c of the text at or after index i, 0 if none
first_at(text, c, i) ==
    IF \E j \in i..Len(text) : text[j] = c
    THEN CHOOSE j \in i..Len(text) : text[j] = c /\ \A m \in i..(j - 1) : text[m] # c
    ELSE 0

\* re.findall(pattern, text): the shortest texts between an opening and the
\* next closing delimiter, left to right
RECURSIVE findall_from(_, _, _)
findall_from(pattern, text, i) ==
    LET start == first_at(text, pattern.open, i)
        stop == IF start = 0 THEN 0 ELSE first_at(text, pattern.close, start + 1)
    IN IF start = 0 \/ stop = 0 THEN <<>>
       ELSE <<SubSeq(text, start + 1, stop - 1)>>
                \o findall_from(pattern, text, IF pattern.consumes THEN stop + 1 ELSE stop)

findall(pattern, text) == findall_from(pattern, text, 1)

\* str.strip()
RECURSIVE lstrip(_)
lstrip(text) ==
    IF text # <<>> /\ is_space(Head(text)) THEN lstrip(Tail(text)) ELSE text

RECURSIVE rstrip(_)
rstrip(text) ==
    IF text # <<>> /\ is_space(text[Len(text)])
    THEN rstrip(SubSeq(text, 1, Len(text) - 1)) ELSE text

strip(text) == lstrip(rstrip(text))

\* str(refined_prompts) of the empty list of matches
str_of_empty_list == <<"[", "]">>

\* the extraction at the end of critique_and_refine; refined_prompts is
\* the output of chat_completion and is then rebound to the list of matches
extract_refined(output) ==
    LET refined_prompts == findall(TEXT_DELIMITER_PATTERN, output) IN
    IF refined_prompts # <<>> THEN Returned(refined_prompts[1])
    ELSE LET matches == findall(domain_pattern, str_of_empty_list) IN
         IF matches # <<>> THEN Returned(strip(matches[1]))
         ELSE RaisedError("ValueError")

MaxOutput == 4

\* what chat_completion may return for the refinement prompt
OutputSymbols ==
    {"<START>", "<END>", "<IMPROVED_PROMPT>", "</IMPROVED_PROMPT>", "a", " "}

\* critique_and_refine, from the answer to the refinement prompt on
CritiqueAndRefine(output) ==
    /\ subject.kind = "DomainEnhancedCritiqueNRefine"
    /\ ret' = [op |-> "critique_and_refine", output |-> output,
               result |-> extract_refined(output)]
    /\ UNCHANGED <<registry, inputs>>

InitRefine ==
    /\ RegistryInit
    /\ directory = <<>>
    /\ evaluator = [kind |-> "none"]
    /\ response = <<>>
    /\ ground_truth = <<>>
    /\ question = <<>>
    /\ subject = [kind |-> "DomainEnhancedCritiqueNRefine"]
    /\ args = <<>>

NextRefine == \E output \in SeqUpTo(OutputSymbols, MaxOutput) : CritiqueAndRefine(output)

SpecRefine == InitRefine /\ [][NextRefine]_vars

\* the text holds the opening delimiter and, after it, the closing one
Wrapped(text, open, close) ==
    \E i, j \in 1..Len(text) : i < j /\ text[i] = open /\ text[j] = close

\* the text between the first opening delimiter and the next closing one
Between(text, open, close) ==
    LET i == CHOOSE i \in 1..Len(text) :
                 /\ text[i] = open
                 /\ \E j \in (i + 1)..Len(text) : text[j] = close
                 /\ \A m \in 1..(i - 1) :
                        ~(text[m] = open /\ \E j \in (m + 1)..Len(text) : text[j] = close)
        j == CHOOSE j \in (i + 1)..Len(text) :
                 text[j] = close /\ \A m \in (i + 1)..(j - 1) : text[m] # close
    IN SubSeq(text, i + 1, j - 1)

\* C24: critique_and_refine raises the extraction-format error exactly when
\* the refinement output holds no delimiter-wrapped text: an output without
\* the standard delimiters but with <IMPROVED_PROMPT>...</IMPROVED_PROMPT>
\* returns the stripped contents, and only an output with neither pair
\* fails with ValueError.
C24_ExtractionFallback ==
    ret.op = "critique_and_refine" =>
        LET standard == Wrapped(ret.output, "<START>", "<END>")
            improved == Wrapped(ret.output, "<IMPROVED_PROMPT>", "</IMPROVED_PROMPT>")
        IN /\ (~standard /\ improved) =>
                  ret.result = Returned(strip(Between(ret.output, "<IMPROVED_PROMPT>",
                                                      "</IMPROVED_PROMPT>")))
           /\ ret.result = RaisedError("ValueError") <=> (~standard /\ ~improved)
\* C25: every built-in domain factory builds its DomainConfig without error
\* (medical and english_question pass validators), and start-up registration
\* leaves medical, legal, finance and english_question registered.
C25_BuiltinsRegisteredAtStartup ==
    ret.op = "import_domains" =>
        /\ \A i \in 1..Len(builtin_domains) : import_builtin(builtin_domains[i][1]).ok
        /\ ret.result.ok
        /\ \A i \in 1..Len(builtin_domains) : dict_has(_domains, builtin_domains[i][1])
----------------------------------------------------------------------------
(* Matching a question against the case library *)

MatchQuestions ==
    {<<>>, <<" ">>, W("a"), <<"A", " ", "b">>, <<"a", " ", "b", " ", "c">>,
     <<"a", " ", "a", " ", "B">>, <<"b", " ", "c", " ", "d", " ", "e">>,
     <<"a", " ", "b", " ", "c", " ", "d">>}

MatchCaseQuestions ==
    {<<>>, W("a"), <<"a", " ", "c">>, <<"A", " ", "B">>, <<"c", " ", "d", "\n", "xyz">>,
     <<"a", " ", "b", " ", "xyz", " ", "e">>}

MatchCases == {CaseExample(q, <<>>, <<>>) : q \in MatchCaseQuestions}

FindMatchingCases ==
    /\ subject.kind = "DomainEvaluator"
    /\ ret' = [op |-> "_find_matching_cases",
               value |-> _find_matching_cases(subject.domain_config, args.question)]
    /\ UNCHANGED <<registry, inputs>>

InitMatch ==
    /\ RegistryInit
    /\ directory = <<>>
    /\ evaluator = [kind |-> "none"]
    /\ response = <<>>
    /\ ground_truth = <<>>
    /\ question = <<>>
    /\ \E critical \in SeqUpTo(MatchCases, MaxCases), common \in SeqUpTo(MatchCases, 1) :
          subject = [kind |-> "DomainEvaluator",
                     domain_config |-> DomainConfig("legal", "A", NoKnowledge,
                                                    CaseLibrary(critical, <<>>, common))]
    /\ args \in [question : MatchQuestions]

NextMatch == FindMatchingCases

SpecMatch == InitMatch /\ [][NextMatch]_vars

\* the distinct lower-cased words of a text: its maximal runs without
\* whitespace
Words(text) ==
    {lower(SubSeq(text, i, j)) : i \in 1..Len(text), j \in 1..Len(text)} \cap
    {lower(SubSeq(text, i, j)) : <<i, j>> \in
        {p \in (1..Len(text)) \X (1..Len(text)) :
            /\ p[1] <= p[2]
            /\ \A m \in p[1]..p[2] : ~is_space(text[m])
            /\ (p[1] = 1 \/ is_space(text[p[1] - 1]))
            /\ (p[2] = Len(text) \/ is_space(text[p[2] + 1]))}}

Smaller(m, n) == IF m <= n THEN m ELSE n

\* more than half of the smaller word set is common to both
MoreThanHalfCommon(q1, q2) ==
    /\ Words(q1) # {}
    /\ Words(q2) # {}
    /\ 2 * Cardinality(Words(q1) \cap Words(q2))
           > Smaller(Cardinality(Words(q1)), Cardinality(Words(q2)))

ExactlyHalfCommon(q1, q2) ==
    /\ Words(q1) # {}
    /\ Words(q2) # {}
    /\ 2 * Cardinality(Words(q1) \cap Words(q2))
           = Smaller(Cardinality(Words(q1)), Cardinality(Words(q2)))

\* C26: a library case matches the question exactly when both have a word
\* and the distinct lower-cased common words are more than half (strictly)
\* of the smaller of the two distinct word sets; exactly half does not
\* match, and an empty question or case question never matches.
C26_MatchIsStrictMajorityOverlap ==
    ret.op = "_find_matching_cases" =>
        LET all_cases == get_all_cases(subject.domain_config.case_library) IN
        ret.value = SelectSeq(all_cases,
                              LAMBDA case : MoreThanHalfCommon(args.question, case.question))

\* a question that has exactly half in common with one case and more than
\* half with another
C26_Witness ==
    /\ ret.op = "_find_matching_cases"
    /\ LET all_cases == get_all_cases(subject.domain_config.case_library) IN
       /\ \E i \in 1..Len(all_cases) :
              /\ ExactlyHalfCommon(args.question, all_cases[i].question)
              /\ \A k \in 1..Len(ret.value) : ret.value[k] # all_cases[i]
       /\ \E i \in 1..Len(all_cases) : all_cases[i].question = <<>>
    /\ Len(ret.value) = 1
    /\ args.question # lower(args.question)
----------------------------------------------------------------------------
(* Principle alignment on the base and the medical evaluator *)

PrincipleLists ==
    MedicalPrinciples \cup
    {<<W("yangmul")>>, <<W("geungeo"), W("jindan"), <<"hwanja", " ", "anjeon">>>>,
     <<W("a"), W("b")>>}

CheckPrinciples ==
    /\ evaluator.kind \in {"base", "medical"}
    /\ ret' = [op |-> "check_principles", value |-> principle_alignment(evaluator, response)]
    /\ UNCHANGED <<registry, inputs>>

InitPrinciples ==
    /\ RegistryInit
    /\ directory = <<>>
    /\ NoSubject
    /\ \E kind \in {"base", "medical"}, principles \in PrincipleLists :
          evaluator = Evaluator(kind,
                                ConfigOfKnowledge(DomainKnowledge(principles, <<>>, <<>>),
                                                  NoCases),
                                Zero)
    /\ response \in MedicalResponses
    /\ ground_truth = <<>>
    /\ question = <<>>

NextPrinciples == CheckPrinciples

SpecPrinciples == InitPrinciples /\ [][NextPrinciples]_vars

\* the principles of the evaluator under test that the response aligns with
AlignedPrinciples ==
    LET principles == evaluator.domain_config.knowledge.principles IN
    {i \in 1..Len(principles) :
        IF evaluator.kind = "medical"
        THEN _aligns_with_medical_principle(response, principles[i])
        ELSE _aligns_with_principle(response, principles[i])}

\* aligned / total for a non-empty principle list, 1.0 on the base evaluator
RatioOfAligned ==
    LET principles == evaluator.domain_config.knowledge.principles IN
    principles # <<>> =>
        /\ ret.value = Frac(Cardinality(AlignedPrinciples), Len(principles))
        /\ evaluator.kind = "base" => ret.value = One

\* C27 (as stated): principle_alignment is aligned / total for a non-empty
\* principle list, 1.0 with the default alignment check, and for an empty
\* list the same neutral default (1.0) on the base and on the medical
\* evaluator.
C27_SameNeutralDefault ==
    ret.op = "check_principles" =>
        /\ RatioOfAligned
        /\ evaluator.domain_config.knowledge.principles = <<>> => ret.value = One

\* what the response earns on the medical evaluator without principles
MedicalDefaultBonus ==
    LET text == lower(response)
        Add(x, cond, y) == IF cond THEN radd(x, y) ELSE x
    IN Add(Add(Add(Zero, contains_any(text, SAFETY_KEYWORDS), Frac(1, 5)),
               contains_any(text, EVIDENCE_KEYWORDS), Frac(3, 20)),
           /\ contains_any(text, {W("tongjeung"), W("chulhyeol"), W("hoheup"), W("uisik")})
           /\ contains_any(text, EMERGENCY_KEYWORDS), Frac(3, 20))

\* C27 (amended): principle_alignment is aligned / total for a non-empty
\* principle list and 1.0 with the default alignment check; for an empty
\* list the base evaluator returns 1.0 and the medical evaluator returns
\* 0.5 plus 0.2 for a safety keyword, 0.15 for an evidence keyword and 0.15
\* for an emergency keyword in an emergency context, at most 1.0.
C27_PrincipleAlignment ==
    ret.op = "check_principles" =>
        /\ RatioOfAligned
        /\ evaluator.domain_config.knowledge.principles = <<>> =>
               IF evaluator.kind = "base" THEN ret.value = One
               ELSE /\ ret.value = rmin(One, radd(Frac(1, 2), MedicalDefaultBonus))
                    /\ rle(Frac(1, 2), ret.value)

\* the medical evaluator without principles on a response without keywords
C27_Witness ==
    /\ ret.op = "check_principles"
    /\ evaluator.kind = "medical"
    /\ evaluator.domain_config.knowledge.principles = <<>>
    /\ ret.value = Frac(1, 2)
----------------------------------------------------------------------------
(* The facade and its evaluator *)

\* evaluator_class(domain_config, llm_client): an instance of a registered
\* class; a custom class scores accuracy its own way
instantiate(evaluator_class, domain_config) ==
    IF evaluator_class = "MedicalDomainEvaluator"
    THEN Evaluator("medical", domain_config, Zero)
    ELSE Evaluator("base", domain_config, One)

\* a constructor that asks the registry first
DomainAwarePromptOptimizer_registry_first(evaluators, domain_config, given) ==
    [kind |-> "DomainAwarePromptOptimizer", domain_config |-> domain_config,
     given |-> given,
     evaluator |->
        IF get_evaluator(evaluators, domain_config.domain_type) # None
        THEN Some(instantiate(get_evaluator(evaluators, domain_config.domain_type)[1],
                              domain_config))
        ELSE given]

\* DomainAwarePromptOptimizer.__init__ (given: the evaluator argument)
DomainAwarePromptOptimizer(evaluators, domain_config, given) ==
    LET evaluator_class == get_evaluator(evaluators, domain_config.domain_type) IN
    [kind |-> "DomainAwarePromptOptimizer", domain_config |-> domain_config,
     given |-> given,
     evaluator |->
        IF given # None THEN given
        ELSE IF evaluator_class # None
        THEN Some(instantiate(evaluator_class[1], domain_config))
        ELSE None]

\* DomainAwarePromptOptimizer.evaluate_response on a facade
optimizer_evaluate_response(optimizer, resp, truth, q) ==
    IF optimizer.evaluator # None
    THEN evaluate(optimizer.evaluator[1], resp, truth, q)
    ELSE _default_evaluate(Evaluator("facade", optimizer.domain_config, Zero), resp, truth)

FacadeConfigs ==
    {DomainConfig(domain_type, "A",
                  DomainKnowledge(<<>>, <<<<"xyz", " ", "geumji">>, W("a")>>, <<>>), NoCases) :
        domain_type \in {"medical", "legal"}}

\* evaluators built by the caller, on a config of their own
GivenEvaluators ==
    {None,
     Some(Evaluator("base", DomainConfig("legal", "B", NoKnowledge, NoCases), Frac(1, 2))),
     Some(Evaluator("medical", DomainConfig("medical", "B", NoKnowledge, NoCases), Zero))}

NewOptimizer(domain_config, given) ==
    /\ subject' = DomainAwarePromptOptimizer(_evaluators, domain_config, given)
    /\ ret' = [op |-> "DomainAwarePromptOptimizer"]
    /\ UNCHANGED <<registry, evaluator, response, ground_truth, question, args>>

OptimizerEvaluateResponse ==
    /\ subject.kind = "DomainAwarePromptOptimizer"
    /\ ret' = [op |-> "optimizer.evaluate_response",
               scores |-> optimizer_evaluate_response(subject, response, ground_truth,
                                                      question)]
    /\ UNCHANGED <<registry, inputs>>

InitFacade ==
    /\ RegistryInit
    /\ directory = <<>>
    /\ evaluator = [kind |-> "none"]
    /\ response \in {<<>>, <<"a", " ", "XYZ">>, <<"b">>}
    /\ ground_truth \in {<<>>, <<"A", " ", "b">>, <<" ">>}
    /\ question = <<>>
    /\ NoSubject

NextFacade ==
    \/ \E c \in FacadeConfigs, e \in OptionalEvaluators : RegisterDomain(c, e)
    \/ \E c \in FacadeConfigs, given \in GivenEvaluators : NewOptimizer(c, given)
    \/ OptimizerEvaluateResponse

SpecFacade == InitFacade /\ [][NextFacade]_vars

\* the entries of a score map other than overall
OtherEntries(scores) == SelectSeq(scores, LAMBDA entry : entry[1] # "overall")

\* the share of the ground truth's distinct words found in the response
WordOverlap(resp, truth) ==
    IF Words(truth) = {} THEN Frac(1, 2)
    ELSE Frac(Cardinality(Words(resp) \cap Words(truth)), Cardinality(Words(truth)))

\* C28: evaluate_response returns evaluator.evaluate(response, ground_truth,
\* question) when an evaluator is attached, an injected evaluator taking
\* precedence over the class registered for config.domain_type; with none
\* attached it returns the fallback map with constraint_compliance, overall
\* as the arithmetic mean of the other entries, and word-overlap accuracy
\* only when ground_truth is non-empty.
C28_EvaluateResponseDelegates ==
    /\ subject.kind = "DomainAwarePromptOptimizer" =>
           /\ subject.given # None => subject.evaluator = subject.given
           /\ subject.evaluator # None =>
                  \/ subject.evaluator = subject.given
                  \/ /\ subject.given = None
                     /\ subject.evaluator[1].domain_config = subject.domain_config
    /\ ret.op = "optimizer.evaluate_response" =>
           IF subject.evaluator # None
           THEN ret.scores = evaluate(subject.evaluator[1], response, ground_truth, question)
           ELSE /\ dict_has(ret.scores, "constraint_compliance")
                /\ dict_has(ret.scores, "overall")
                /\ dict_get(ret.scores, "overall") =
                       Some(rdiv(sum_values(OtherEntries(ret.scores)),
                                 Frac(Len(OtherEntries(ret.scores)), 1)))
                /\ dict_has(ret.scores, "accuracy") <=> ground_truth # <<>>
                /\ ground_truth # <<>> =>
                       dict_get(ret.scores, "accuracy") = Some(WordOverlap(response, ground_truth))
                /\ Range(dict_keys(ret.scores)) \subseteq
                       {"accuracy", "constraint_compliance", "overall"}

\* an injected evaluator used although a class is registered for the
\* config's domain type
C28_Witness ==
    /\ ret.op = "optimizer.evaluate_response"
    /\ subject.given # None
    /\ dict_has(_evaluators, subject.domain_config.domain_type)
    /\ subject.given[1].kind = "base"
    /\ subject.domain_config.domain_type = "medical"
    /\ ground_truth # <<>>
----------------------------------------------------------------------------
(* Shared objects: configs are held by reference.  The objects live in a    *)
(* heap (subject.heap), a reference is an index into it, and the registry   *)
(* maps an identifier to a reference.                                       *)

\* DomainAwarePromptOptimizer.get_critical_test_cases
get_critical_test_cases(config) ==
    [i \in 1..Len(config.case_library.critical_cases) |->
        LET case == config.case_library.critical_cases[i] IN
        [question |-> case.question, expected_elements |-> case.expected_elements,
         forbidden_elements |-> case.forbidden_elements, category |-> case.category,
         difficulty |-> case.difficulty]]

\* the operations of the facade, of the evaluators and of the critique
\* generator that are handed a config
ConfigOperations ==
    {"enhance_base_instruction", "evaluate_response", "generate_domain_critique",
     "generate_domain_refinement", "get_critical_test_cases", "validate_against_cases",
     "evaluate", "get_domain_expert_prompt"}

\* what an operation returns
operation_result(op, evaluators, config) ==
    CASE op = "enhance_base_instruction" -> enhance_base_instruction(config, W("a"))
      [] op = "evaluate_response" ->
            optimizer_evaluate_response(DomainAwarePromptOptimizer(evaluators, config, None),
                                        <<"a", " ", "xyz">>, W("a"), W("a"))
      [] op = "generate_domain_critique" ->
            generate_critique_prompt(config, W("a"), W("b"), <<>>)
      [] op = "generate_domain_refinement" ->
            generate_refinement_prompt(config, W("a"), W("b"), W("c"))
      [] op = "get_critical_test_cases" -> get_critical_test_cases(config)
      [] op = "validate_against_cases" ->
            validate_against_cases(config,
                                   [i \in 1..Len(get_all_cases(config.case_library)) |->
                                       Returned(<<"b", " ", "a">>)], FALSE)
      [] op = "evaluate" ->
            evaluate(Evaluator(IF config.domain_type = "medical" THEN "medical" ELSE "base",
                               config, Frac(1, 2)),
                     <<"a", " ", "xyz">>, W("a"), W("a"))
      [] op = "get_domain_expert_prompt" -> get_domain_expert_prompt(config)

\* an operation that takes the cases it reports out of the library
config_after_taking(op, config) ==
    IF op = "get_critical_test_cases"
    THEN [config EXCEPT !.case_library.critical_cases = <<>>]
    ELSE config

\* the config object after an operation: no operation assigns to a field of
\* the config or calls a mutating method on one of its lists (they read,
\* slice and build new lists and dicts)
config_after(op, config) == config

\* cls._domains[domain_config.domain_type] = domain_config, by reference
register_reference(domains, heap, ref) == dict_set(domains, heap[ref].domain_type, ref)

SharedConfig(domain_type, domain_name) ==
    DomainConfig(domain_type, domain_name,
                 DomainKnowledge(<<W("p1")>>, <<<<"xyz", " ", "geumji">>>>, <<>>),
                 CaseLibrary(<<StoredCase>>, <<>>, <<>>))

RegisterReference(ref, evaluator_class) ==
    /\ subject.kind = "objects"
    /\ _domains' = register_reference(_domains, subject.heap, ref)
    /\ _evaluators' = register_domain_evaluators(_evaluators, subject.heap[ref],
                                                 evaluator_class)
    /\ lastCall' = [lastCall EXCEPT ![subject.heap[ref].domain_type] =
                       Some([config |-> ref, evaluator_class |-> evaluator_class])]
    /\ ret' = [op |-> "register_domain", config |-> ref, evaluator_class |-> evaluator_class]
    /\ UNCHANGED <<directory, inputs>>

\* an operation on the config behind a reference
Operate(op, ref) ==
    /\ subject.kind = "objects"
    /\ ret' = [op |-> op, config |-> ref,
               value |-> operation_result(op, _evaluators, subject.heap[ref])]
    /\ subject' = [subject EXCEPT !.heap[ref] = config_after(op, @)]
    /\ UNCHANGED <<registry, evaluator, response, ground_truth, question, args>>

\* create_domain_optimizer without custom_config: the registered reference,
\* else the built-in config (reference 0, an object of the package)
CreateFromRegistry(domain_type) ==
    LET found == get_domain(_domains, domain_type)
        config == IF found # None THEN Returned(found[1])
                  ELSE IF ~(domain_type \in {"medical", "legal", "finance"})
                  THEN RaisedError("ValueError")
                  ELSE IF import_builtin(domain_type).ok THEN Returned(0)
                  ELSE import_builtin(domain_type)
    IN /\ subject.kind = "objects"
       /\ ret' = [op |-> "create_domain_optimizer", domain_type |-> domain_type,
                  result |-> IF config.ok /\ domain_type = "medical"
                             THEN import_builtin("medical") ELSE config]
       /\ UNCHANGED <<registry, inputs>>

InitShared ==
    /\ RegistryInit
    /\ directory = <<>>
    /\ evaluator = [kind |-> "none"]
    /\ response = <<>>
    /\ ground_truth = <<>>
    /\ question = <<>>
    /\ \E domain_name \in {"A", "B"} :
          subject = [kind |-> "objects",
                     heap |-> <<SharedConfig("legal", "A"), SharedConfig("legal", domain_name),
                                SharedConfig("medical", "A")>>]
    /\ args = <<>>

NextShared ==
    \/ \E ref \in 1..3, e \in {None, Some("CustomEvaluator")} : RegisterReference(ref, e)
    \/ \E k \in DomainTypes : GetDomain(k)
    \/ Clear
    \/ \E op \in ConfigOperations, ref \in 1..3 : Operate(op, ref)
    \/ \E k \in FactoryTypes : CreateFromRegistry(k)

SpecShared == InitShared /\ [][NextShared]_vars

----------------------------------------------------------------------------
(* The prompt library of the web application: a JSON file holding a list    *)
(* of entries (subject.library), read by load_prompt_library and written   *)
(* by save_prompt_library in every operation; there is no file at first.   *)
(* subject.clock stands for datetime.now().                                 *)

MaxSaves == 4

\* the entry add_to_library builds and appends
library_entry(library, name, now) ==
    [id |-> Len(library) + 1, name |-> name, created_at |-> now]

AddToLibrary(name) ==
    LET library == subject.library
        entry == library_entry(library, name, subject.clock)
    IN /\ subject.kind = "prompt_library"
       /\ subject.clock < MaxSaves
       /\ subject' = [subject EXCEPT !.library = Append(library, entry),
                                     !.clock = @ + 1]
       /\ ret' = [op |-> "add_to_library", entry |-> entry]
       /\ UNCHANGED <<registry, evaluator, response, ground_truth, question, args>>

\* the delete button of an entry shown by render_prompt_library
DeleteEntry(i) ==
    LET library == subject.library IN
    /\ subject.kind = "prompt_library"
    /\ i \in 1..Len(library)
    /\ subject' = [subject EXCEPT
                      !.library = SelectSeq(library, LAMBDA e : e.id # library[i].id)]
    /\ ret' = [op |-> "delete", entry |-> library[i], before |-> library]
    /\ UNCHANGED <<registry, evaluator, response, ground_truth, question, args>>

InitLibrary ==
    /\ RegistryInit
    /\ directory = <<>>
    /\ evaluator = [kind |-> "none"]
    /\ response = <<>>
    /\ ground_truth = <<>>
    /\ question = <<>>
    /\ subject = [kind |-> "prompt_library", library |-> <<>>, clock |-> 0]
    /\ args = <<>>

NextLibrary ==
    \/ \E name \in {"a", "b"} : AddToLibrary(name)
    \/ \E i \in 1..MaxSaves : DeleteEntry(i)

SpecLibrary == InitLibrary /\ [][NextLibrary]_vars

\* C30: after any sequence of add_to_library and delete operations the
\* stored entries have distinct ids, so a delete removes exactly the entry
\* whose button was pressed and every other entry is still stored.
C30_LibraryIdsDistinct ==
    /\ \A i, j \in 1..Len(subject.library) :
           i # j => subject.library[i].id # subject.library[j].id
    /\ ret.op = "delete" =>
           /\ Len(subject.library) = Len(ret.before) - 1
           /\ \A i \in 1..Len(ret.before) :
                  ret.before[i] # ret.entry =>
                      \E j \in 1..Len(subject.library) : subject.library[j] = ret.before[i]
====
